---- MODULE Spec2Model ----
(***************************************************************************)
(* voy: a CLI that follows arXiv authors and reconciles their fetched      *)
(* papers against a local SQLite store.                                    *)
(*                                                                         *)
(* The store is the three tables of query.py (author, paper, authorship).  *)
(* `db` is what the open connection sees, `disk` what has been committed.  *)
(* Commands run one after another in one process each (voy.py main).       *)
(***************************************************************************)
EXTENDS Integers, Sequences, FiniteSets, TLC

\* ---------------------------------------------------------------- bounds
\* Highest arXiv version number the feed hands out.
MaxVersion == 10
\* Longest list of papers one followee's fetch returns.
MaxPapers == 2
\* Fetched paper occurrences reconciled over a whole behaviour.
MaxFetched == 2
\* The same three for the three-paper batches of SpecBatch.
MaxBatchVersion == 3
MaxBatchPapers == 3
MaxBatchFetched == 5
\* Longest name handed to normalize_author_name, in whitespace characters
\* and words.
MaxNameLen == 6
\* Longest last_name, other_names or name_suffix an Author is built from,
\* the listed longer ones apart.
MaxPartLen == 1
\* Longest paper id a Paper is built with, in characters.
MaxIdLen == 4
\* Longest papers list of one author in latest_papers.
MaxListed == 2

\* ----------------------------------------------------- program constants
BATCH_SIZE == 100
max_tries == 5

AuthorIds == {"a1", "a2"}
\* Version numbers of the feed: the low ones and the ones around the first
\* two-digit version.
Versions == {v \in 1..MaxVersion : v <= 3 \/ v >= 9}
\* The (paper, version) pairs the upstream source can return.
Feed == {"A", "B"} \X Versions
FeedBatch == {"A", "B", "C"} \X (1..MaxBatchVersion)
\* The author list of version n of paper pid. A version of a paper is
\* immutable upstream, so the list is a function of both; it changes between
\* versions, and an author may be listed twice.
FeedAuthors(pid, n) ==
    IF pid = "A" THEN <<"a1">>
    ELSE IF n % 2 = 1 THEN <<"a1", "a2">>
    ELSE <<"a2", "a2">>

VARIABLES
    env,       \* the upstream source: [feed, maxpapers, maxfetched], fixed
    db,        \* the connection's view: [paper, author, authorship]
    disk,      \* the committed store
    conn,      \* the command's Storage connection: "none", "open", "closed"
    pc,        \* position of the running command
    arg,       \* follow(): the author found, "" otherwise
    todo,      \* update(): followees not yet iterated
    run_set,   \* update(): the followees of this run
    attempted, \* update(): followees whose fetch was started
    left,      \* update(): papers of author.papers not yet iterated
    cnt,       \* update(): [new, old, upd] = new_cnt, old_cnt, upd_cnt
    raised,    \* the exception that ended the command, "" when none
    disk0,     \* the committed store when the running command started
    last,      \* the step taken last, with the state before it
    batch,     \* update(): the <<paper, fetched version, stored version>>
               \* of the occurrences reconciled in this run (0: not stored)
    tally,     \* update(): occurrences of this run by what happened to the
               \* store: [ins, upd, same, rej]
    nfetched,  \* fetched paper occurrences reconciled so far
    fpc,       \* from_arxiv_api: "idle", in fetch_batch's "loop", fetch_batch
               \* "returned" or "raised", the process "exited"
    tries,     \* fetch_batch: tries
    requests,  \* fetch_batch: calls of get_response so far
    page,      \* fetch_batch: papers in the last response
    ferr,      \* fetch_batch: the exception it raised, "" when none
    status,    \* from_arxiv_api: the exit status of the process, -1 while
               \* it runs
    call,      \* models.py: the call under way, [op, ...arguments]
    ret        \* models.py: what the call returned or raised, [op |-> "none"]
               \* before it has

syncvars == <<env, db, disk, conn, pc, arg, todo, run_set, attempted, left,
              cnt, raised, disk0, last, batch, tally, nfetched>>
fetchvars == <<fpc, tries, requests, page, ferr, status>>
callvars == <<call, ret>>
vars == <<syncvars, fetchvars, callvars>>

\* ------------------------------------------------------------ strings
\* The decimal numeral of n, as a sequence of digits: the text after the
\* "v" of an entry id such as 2101.00001v10.
RECURSIVE VersionStr(_)
VersionStr(n) ==
    IF n < 10 THEN <<n>> ELSE Append(VersionStr(n \div 10), n % 10)

\* Python's str < str: lexicographic by code point (digits in order).
RECURSIVE StrLess(_, _)
StrLess(s, t) ==
    IF t = <<>> THEN FALSE
    ELSE IF s = <<>> THEN TRUE
    ELSE IF Head(s) # Head(t) THEN Head(s) < Head(t)
    ELSE StrLess(Tail(s), Tail(t))

\* The integer a decimal numeral denotes.
RECURSIVE StrToInt(_)
StrToInt(s) ==
    IF s = <<>> THEN 0
    ELSE 10 * StrToInt(SubSeq(s, 1, Len(s) - 1)) + s[Len(s)]

\* ------------------------------------------------------------- store
\* exc is the error the connection raised on the last statement, "" when
\* none: the statements after it in the same block are not executed.
EmptyStore ==
    [paper |-> <<>>, author |-> <<>>, authorship |-> <<>>, exc |-> ""]

Put(f, k, v) == [x \in (DOMAIN f) \cup {k} |-> IF x = k THEN v ELSE f[x]]

\* Storage.commit: the connection's view becomes the committed store.
Commit(d) == d

\* PaperDB.exists / Q.is_paper
PaperDB_exists(d, pid) == pid \in DOMAIN d.paper

\* PaperDB.get / Q.get_paper: the row; meta is json, so the version comes
\* back as the value that was dumped.
PaperDB_get(d, pid) == d.paper[pid]

\* PaperDB.save / Q.add_paper: the INSERT names id, updated, created and
\* meta; visible takes the column's DEFAULT 1. id is the primary key: an
\* INSERT of a stored id raises IntegrityError.
PaperDB_save(d, p) ==
    IF p.id \in DOMAIN d.paper THEN [d EXCEPT !.exc = "IntegrityError"]
    ELSE [d EXCEPT !.paper = Put(@, p.id,
        [updated |-> p.updated, created |-> p.created,
         version |-> p.version, authors |-> p.authors, visible |-> TRUE])]

\* PaperDB.update / Q.update_paper: rewrites created, updated, meta, visible.
PaperDB_update(d, p) ==
    [d EXCEPT !.paper = Put(@, p.id,
        [updated |-> p.updated, created |-> p.created,
         version |-> p.version, authors |-> p.authors,
         visible |-> p.visible])]

\* AuthorDB.exists / Q.is_author
AuthorDB_exists(d, a) == a \in DOMAIN d.author

\* AuthorDB.save / Q.add_author; id is the primary key and followed is NOT
\* NULL (a _followed of None is -1).
AuthorDB_save(d, a, followed) ==
    IF a \in DOMAIN d.author \/ followed \notin {0, 1}
    THEN [d EXCEPT !.exc = "IntegrityError"]
    ELSE [d EXCEPT !.author = Put(@, a, [followed |-> followed])]

\* AuthorDB_update taking the row out of the table when the flag is 0.
AuthorDB_update_DeletesUnfollowed(d, a, followed) ==
    IF followed = 0
    THEN [d EXCEPT !.author = [x \in (DOMAIN @) \ {a} |-> @[x]]]
    ELSE [d EXCEPT !.author = [x \in DOMAIN @ |->
             IF x = a THEN [@[x] EXCEPT !.followed = followed] ELSE @[x]]]

\* AuthorDB.update / Q.follow_author: sets the followed flag of one row.
AuthorDB_update(d, a, followed) ==
    [d EXCEPT !.author = [x \in DOMAIN @ |->
        IF x = a THEN [@[x] EXCEPT !.followed = followed] ELSE @[x]]]

\* AuthorDB.get_followees / Q.get_followed
AuthorDB_get_followees(d) ==
    {a \in DOMAIN d.author : d.author[a].followed = 1}

\* Q.add_authorship: one more row of the authorship table.
add_authorship(d, a, pid) ==
    [d EXCEPT !.authorship = Append(@, <<a, pid>>)]


\* Storage.__exit__: the cursor is closed, then rollback when exc_value is
\* an Exception and commit otherwise, then the connection is closed. The
\* result is the committed store. KeyboardInterrupt and SystemExit are
\* BaseExceptions that are no Exception; "" is no exception (None).
IsException(exc) == exc \notin {"", "KeyboardInterrupt", "SystemExit"}
Storage_exit(view, committed, exc) ==
    IF IsException(exc) THEN committed ELSE Commit(view)

\* --------------------------------------------------------------- Paper
\* Paper.__init__(self, id, created, updated, meta, visible): no parameter
\* has a default, so a call that leaves one out is a TypeError; _post_init
\* then asserts that the last character of the id (a sequence of
\* characters) is not "v", and that created <= updated.
PaperParams == {"id", "created", "updated", "meta", "visible"}
Paper_init(kwargs, id, created, updated) ==
    IF kwargs # PaperParams THEN "TypeError"
    ELSE IF id = <<>> THEN "IndexError"
    ELSE IF id[Len(id)] = "v" THEN "AssertionError"
    ELSE IF created > updated THEN "AssertionError"
    ELSE "ok"

\* ------------------------------------------------------- fetched papers
\* PaperArxiv._cast: the entry id is split at "v" into the un-versioned id
\* and the version, which stays the text it was; visible is True. The feed's
\* timestamps are those of the first and of the fetched version.
PaperArxiv_cast(pid, n) ==
    [id |-> pid, created |-> 1, updated |-> n, version |-> VersionStr(n),
     authors |-> FeedAuthors(pid, n), visible |-> TRUE]

\* ------------------------------------------------------------ update()
\* What AuthorArxiv.get_papers_ can raise: the arxiv client's two errors,
\* and the assertions of Author and Paper construction in _cast.
FetchErrors == {"UnexpectedEmptyPageError", "HTTPError", "AssertionError"}
\* `except UnexpectedEmptyPageError` around AuthorArxiv.get_papers_.
Caught(exc) == exc = "UnexpectedEmptyPageError"

\* Branch with `<=` for `<`, which lets the same version through to update.
Branch_SameIsNewer(d, p) ==
    IF PaperDB_exists(d, p.id)
    THEN LET old == PaperDB_get(d, p.id) IN
         IF StrLess(old.version, p.version) \/ old.version = p.version
         THEN "upd"
         ELSE "err"
    ELSE "new"

\* The branch update() takes for a fetched paper p:
\* "old" (same version), "upd" (stored < fetched), "err" (log.error), "new".
Branch(d, p) ==
    IF PaperDB_exists(d, p.id)
    THEN LET old == PaperDB_get(d, p.id) IN
         IF old.version = p.version THEN "old"
         ELSE IF StrLess(old.version, p.version) THEN "upd"
         ELSE "err"
    ELSE "new"

\* AddAuthors with the authorship row added inside the `if not exists`.
RECURSIVE AddAuthors_EdgeForNewOnly(_, _, _)
AddAuthors_EdgeForNewOnly(d, authors, pid) ==
    IF authors = <<>> \/ d.exc # "" THEN d
    ELSE LET a  == Head(authors)
             d1 == IF ~AuthorDB_exists(d, a)
                   THEN add_authorship(AuthorDB_save(d, a, 0), a, pid)
                   ELSE d
         IN  AddAuthors_EdgeForNewOnly(d1, Tail(authors), pid)

\* AddAuthors saving every listed author, without asking exists.
RECURSIVE AddAuthors_SaveUnasked(_, _, _)
AddAuthors_SaveUnasked(d, authors, pid) ==
    IF authors = <<>> \/ d.exc # "" THEN d
    ELSE LET a  == Head(authors)
             d1 == AuthorDB_save(d, a, 0)
         IN  IF d1.exc # "" THEN d1
             ELSE AddAuthors_SaveUnasked(add_authorship(d1, a, pid),
                                         Tail(authors), pid)

\* AddAuthors without the save of the unknown authors.
RECURSIVE AddAuthors_NoSave(_, _, _)
AddAuthors_NoSave(d, authors, pid) ==
    IF authors = <<>> \/ d.exc # "" THEN d
    ELSE AddAuthors_NoSave(add_authorship(d, Head(authors), pid),
                           Tail(authors), pid)

\* AddAuthors setting the flag of the known authors to 0 as well.
RECURSIVE AddAuthors_ResetsFlag(_, _, _)
AddAuthors_ResetsFlag(d, authors, pid) ==
    IF authors = <<>> \/ d.exc # "" THEN d
    ELSE LET a  == Head(authors)
             d1 == IF ~AuthorDB_exists(d, a) THEN AuthorDB_save(d, a, 0)
                   ELSE AuthorDB_update(d, a, 0)
         IN  IF d1.exc # "" THEN d1
             ELSE AddAuthors_ResetsFlag(add_authorship(d1, a, pid),
                                        Tail(authors), pid)

\* `for author in paper.meta.authors`: save the unknown ones unfollowed,
\* add the authorship row for each entry of the list.
RECURSIVE AddAuthors(_, _, _)
AddAuthors(d, authors, pid) ==
    IF authors = <<>> \/ d.exc # "" THEN d
    ELSE LET a  == Head(authors)
             d1 == IF ~AuthorDB_exists(d, a) THEN AuthorDB_save(d, a, 0) ELSE d
         IN  IF d1.exc # "" THEN d1
             ELSE AddAuthors(add_authorship(d1, a, pid), Tail(authors), pid)

\* ReconcileStore with the update branch putting the authorship rows of
\* the fetched author list in the place of the paper's stored ones.
ReconcileStore_ReplacesEdges(d, p) ==
    LET b == Branch(d, p) IN
    IF b = "upd"
    THEN AddAuthors(
             [PaperDB_update(d, p) EXCEPT !.authorship =
                 SelectSeq(@, LAMBDA e : e[2] # p.id)],
             p.authors, p.id)
    ELSE IF b = "new" THEN AddAuthors(PaperDB_save(d, p), p.authors, p.id)
    ELSE d

\* The statements of the taken branch, before db.commit().
ReconcileStore(d, p) ==
    LET b == Branch(d, p) IN
    IF b = "upd" THEN PaperDB_update(d, p)
    ELSE IF b = "new" THEN AddAuthors(PaperDB_save(d, p), p.authors, p.id)
    ELSE d

\* ReconcileCount with the rejected papers counted as old.
ReconcileCount_ErrIsOld(c, b) ==
    IF b = "new" THEN [c EXCEPT !.new = @ + 1]
    ELSE IF b = "upd" THEN [c EXCEPT !.upd = @ + 1]
    ELSE [c EXCEPT !.old = @ + 1]

\* new_cnt, old_cnt, upd_cnt after the taken branch.
ReconcileCount(c, b) ==
    IF b = "new" THEN [c EXCEPT !.new = @ + 1]
    ELSE IF b = "old" THEN [c EXCEPT !.old = @ + 1]
    ELSE IF b = "upd" THEN [c EXCEPT !.upd = @ + 1]
    ELSE c

\* What one iteration did to the store, read off the store before and
\* after it: the paper appeared ("ins"), its row changed ("upd"), the row
\* is as it was and holds the fetched version ("same"), or the row is as it
\* was and holds another version ("rej").
Effect(pre, post, p) ==
    IF p.id \notin DOMAIN pre.paper
    THEN IF p.id \in DOMAIN post.paper THEN "ins" ELSE "none"
    ELSE IF post.paper[p.id] # pre.paper[p.id] THEN "upd"
    ELSE IF pre.paper[p.id].version = p.version THEN "same"
    ELSE "rej"

\* The stored version of paper pid as a number, 0 when it is not stored.
StoredVersion(d, pid) ==
    IF pid \in DOMAIN d.paper THEN StrToInt(d.paper[pid].version) ELSE 0

ZeroCnt == [new |-> 0, old |-> 0, upd |-> 0]
ZeroTally == [ins |-> 0, upd |-> 0, same |-> 0, rej |-> 0, none |-> 0]
NoLast == [kind |-> "none"]

EnvSpec == [feed |-> Feed, maxpapers |-> MaxPapers, maxfetched |-> MaxFetched]
EnvBatch == [feed |-> FeedBatch, maxpapers |-> MaxBatchPapers,
             maxfetched |-> MaxBatchFetched]

InitSync(e) ==
    /\ env = e
    /\ db = EmptyStore
    /\ disk = EmptyStore
    /\ conn = "none"
    /\ pc = "idle"
    /\ arg = ""
    /\ todo = {}
    /\ run_set = {}
    /\ attempted = {}
    /\ left = 0
    /\ cnt = ZeroCnt
    /\ raised = ""
    /\ disk0 = EmptyStore
    /\ last = NoLast
    /\ batch = {}
    /\ tally = ZeroTally
    /\ nfetched = 0

InitFetchIdle ==
    /\ fpc = "idle"
    /\ tries = 0
    /\ requests = 0
    /\ page = 0
    /\ ferr = ""
    /\ status = -1

\* No call of the models layer is under way.
NoCall == [op |-> "none"]
InitNoCall ==
    /\ call = NoCall
    /\ ret = NoCall

Init == InitSync(EnvSpec) /\ InitFetchIdle /\ InitNoCall

\* A command starts: no exception yet, the committed store is noted.
Begin ==
    /\ raised' = ""
    /\ disk0' = disk
    /\ last' = NoLast

\* ------------------------------------------------------------- follow()
\* What follow() writes for the one author found: the flag of a stored
\* author that is not followed, or a new row with followed = 1.
FollowStore(d, a) ==
    IF AuthorDB_exists(d, a)
    THEN IF d.author[a].followed = 1 THEN d ELSE AuthorDB_update(d, a, 1)
    ELSE AuthorDB_save(d, a, 1)

\* follow() with AuthorArxiv.get having found the one author a: the with
\* block is entered.
FollowEnter(a) ==
    /\ pc = "idle"
    /\ pc' = "follow"
    /\ arg' = a
    /\ conn' = "open"
    /\ Begin
    /\ UNCHANGED <<env, db, disk, todo, run_set, attempted, left, cnt, batch,
                   tally, nfetched>>
    /\ UNCHANGED <<fetchvars, callvars>>

\* Leaving the with block by exc ("" when the block just ends or returns).
StorageExit(exc) ==
    /\ disk' = Storage_exit(db, disk, exc)
    /\ db' = disk'
    /\ conn' = "closed"
    /\ raised' = exc
    /\ last' = [kind |-> "exit", exc |-> exc, view |-> db, committed |-> disk,
                at |-> pc]
    /\ pc' = "exited"

\* `if exists: if followed: return / else: update` or `else: save`.
FollowWrite ==
    /\ pc = "follow"
    /\ IF AuthorDB_exists(db, arg) /\ db.author[arg].followed = 1
       THEN /\ StorageExit("")
            /\ UNCHANGED disk0
       ELSE IF FollowStore(db, arg).exc # ""
       THEN /\ StorageExit(FollowStore(db, arg).exc)
            /\ UNCHANGED disk0
       ELSE /\ db' = FollowStore(db, arg)
            /\ pc' = "follow_written"
            /\ UNCHANGED <<disk, conn, raised, last, disk0>>
    /\ UNCHANGED <<env, arg, todo, run_set, attempted, left, cnt, batch,
                   tally, nfetched>>
    /\ UNCHANGED <<fetchvars, callvars>>

\* db.commit()
FollowCommit ==
    /\ pc = "follow_written"
    /\ disk' = Commit(db)
    /\ pc' = "follow_committed"
    /\ UNCHANGED <<env, db, conn, arg, todo, run_set, attempted, left, cnt,
                   raised, disk0, last, batch, tally, nfetched>>
    /\ UNCHANGED <<fetchvars, callvars>>

\* The followees are listed and the block ends.
FollowReturn ==
    /\ pc = "follow_committed"
    /\ StorageExit("")
    /\ UNCHANGED <<env, arg, todo, run_set, attempted, left, cnt, disk0,
                   batch, tally, nfetched>>
    /\ UNCHANGED <<fetchvars, callvars>>

\* Something is raised inside the block: a store error, or the user's
\* Ctrl-C.
FollowRaise(exc) ==
    /\ pc \in {"follow", "follow_written", "follow_committed"}
    /\ StorageExit(exc)
    /\ UNCHANGED <<env, arg, todo, run_set, attempted, left, cnt, disk0,
                   batch, tally, nfetched>>
    /\ UNCHANGED <<fetchvars, callvars>>

\* `case []` and `case [*authors]` of follow(): AuthorArxiv.get found no
\* author, or n of them; a message is printed and the with block ends.
FollowMiss(n) ==
    /\ pc = "idle"
    /\ n # 1
    /\ arg' = ""
    /\ disk0' = disk
    /\ disk' = Storage_exit(db, disk, "")
    /\ db' = disk'
    /\ conn' = "closed"
    /\ raised' = ""
    /\ last' = [kind |-> "exit", exc |-> "", view |-> db, committed |-> disk,
                at |-> "follow_miss"]
    /\ pc' = "exited"
    /\ UNCHANGED <<env, todo, run_set, attempted, left, cnt, batch, tally,
                   nfetched>>
    /\ UNCHANGED <<fetchvars, callvars>>

\* ----------------------------------------------------------- unfollow()
\* unfollow() with AuthorDB.search having found the one stored author a.
UnfollowEnter(a) ==
    /\ pc = "idle"
    /\ a \in DOMAIN db.author
    /\ pc' = "unfollow"
    /\ arg' = a
    /\ conn' = "open"
    /\ Begin
    /\ UNCHANGED <<env, db, disk, todo, run_set, attempted, left, cnt, batch,
                   tally, nfetched>>
    /\ UNCHANGED <<fetchvars, callvars>>

\* `if not is_followed_(author).followed: return`, else _followed = False
\* and AuthorDB.update.
UnfollowWrite ==
    /\ pc = "unfollow"
    /\ IF db.author[arg].followed # 1
       THEN /\ StorageExit("")
            /\ UNCHANGED disk0
       ELSE /\ db' = AuthorDB_update(db, arg, 0)
            /\ pc' = "unfollow_written"
            /\ UNCHANGED <<disk, conn, raised, last, disk0>>
    /\ UNCHANGED <<env, arg, todo, run_set, attempted, left, cnt, batch,
                   tally, nfetched>>
    /\ UNCHANGED <<fetchvars, callvars>>

\* db.commit()
UnfollowCommit ==
    /\ pc = "unfollow_written"
    /\ disk' = Commit(db)
    /\ pc' = "unfollow_committed"
    /\ UNCHANGED <<env, db, conn, arg, todo, run_set, attempted, left, cnt,
                   raised, disk0, last, batch, tally, nfetched>>
    /\ UNCHANGED <<fetchvars, callvars>>

\* The followees are listed and the block ends.
UnfollowReturn ==
    /\ pc = "unfollow_committed"
    /\ StorageExit("")
    /\ UNCHANGED <<env, arg, todo, run_set, attempted, left, cnt, disk0,
                   batch, tally, nfetched>>
    /\ UNCHANGED <<fetchvars, callvars>>

\* Something is raised inside the block.
UnfollowRaise(exc) ==
    /\ pc \in {"unfollow", "unfollow_written", "unfollow_committed"}
    /\ StorageExit(exc)
    /\ UNCHANGED <<env, arg, todo, run_set, attempted, left, cnt, disk0,
                   batch, tally, nfetched>>
    /\ UNCHANGED <<fetchvars, callvars>>

\* `case []` and `case [*authors]` of unfollow(): the search found no
\* stored author, or n of them; a message is printed and the block ends.
UnfollowMiss(n) ==
    /\ pc = "idle"
    /\ n # 1
    /\ n <= Cardinality(DOMAIN db.author)
    /\ arg' = ""
    /\ disk0' = disk
    /\ disk' = Storage_exit(db, disk, "")
    /\ db' = disk'
    /\ conn' = "closed"
    /\ raised' = ""
    /\ last' = [kind |-> "exit", exc |-> "", view |-> db, committed |-> disk,
                at |-> "unfollow_miss"]
    /\ pc' = "exited"
    /\ UNCHANGED <<env, todo, run_set, attempted, left, cnt, batch, tally,
                   nfetched>>
    /\ UNCHANGED <<fetchvars, callvars>>

\* ------------------------------------------------------------- triage()
\* The papers triage() lists: those joined to a followee by an authorship row.
TriagePapers(d) ==
    {d.authorship[i][2] : i \in {j \in DOMAIN d.authorship :
        d.authorship[j][1] \in AuthorDB_get_followees(d)}}

\* One key of the triage controller on paper pid: left hides a visible
\* paper, right shows a hidden one; the row is rewritten and committed.
TriageStore(d, pid, key) ==
    LET row == d.paper[pid] IN
    IF key = "KEY_LEFT" /\ row.visible
    THEN [d EXCEPT !.paper[pid].visible = FALSE]
    ELSE IF key = "KEY_RIGHT" /\ ~row.visible
    THEN [d EXCEPT !.paper[pid].visible = TRUE]
    ELSE d

TriageKey(pid, key) ==
    /\ pc = "idle"
    /\ pid \in TriagePapers(db)
    /\ db' = TriageStore(db, pid, key)
    /\ disk' = Commit(db')
    /\ disk0' = disk'
    /\ UNCHANGED <<env, conn, pc, arg, todo, run_set, attempted, left, cnt,
                   raised, last, batch, tally, nfetched>>
    /\ UNCHANGED <<fetchvars, callvars>>

\* ------------------------------------------------------------- update()
\* update(), up to `db = Storage()`: the followees are read in a with block
\* of their own, the counters start at 0 and the run's connection is opened.
UpdateStart ==
    /\ pc = "idle"
    /\ nfetched < env.maxfetched
    /\ todo' = AuthorDB_get_followees(db)
    /\ run_set' = todo'
    /\ attempted' = {}
    /\ cnt' = ZeroCnt
    /\ batch' = {}
    /\ tally' = ZeroTally
    /\ conn' = "open"
    /\ left' = 0
    /\ pc' = "loop"
    /\ Begin
    /\ UNCHANGED <<env, db, disk, arg, nfetched>>
    /\ UNCHANGED <<fetchvars, callvars>>

\* `for author in followees` (a set: any order), the fetch raises exc.
\* UnexpectedEmptyPageError is caught and the loop continues; anything else
\* leaves update() there and then.
FetchRaises(a, exc) ==
    /\ pc = "loop"
    /\ a \in todo
    /\ todo' = todo \ {a}
    /\ attempted' = attempted \cup {a}
    /\ last' = NoLast
    /\ IF Caught(exc)
       THEN UNCHANGED <<pc, raised>>
       ELSE pc' = "aborted" /\ raised' = exc
    /\ UNCHANGED <<env, db, disk, conn, arg, run_set, left, cnt, disk0,
                   batch, tally, nfetched>>
    /\ UNCHANGED <<fetchvars, callvars>>

\* The fetch finds no author: author.papers stays None, `continue`.
FetchNone(a) ==
    /\ pc = "loop"
    /\ a \in todo
    /\ todo' = todo \ {a}
    /\ attempted' = attempted \cup {a}
    /\ last' = NoLast
    /\ UNCHANGED <<env, db, disk, conn, pc, arg, run_set, left, cnt, raised,
                   disk0, batch, tally, nfetched>>
    /\ UNCHANGED <<fetchvars, callvars>>

\* The fetch returns n papers (the list is drawn paper by paper below: it is
\* fixed by the feed and nothing the loop does changes it).
FetchPapers(a, n) ==
    /\ pc = "loop"
    /\ a \in todo
    /\ n <= env.maxpapers
    /\ nfetched + n <= env.maxfetched
    /\ todo' = todo \ {a}
    /\ attempted' = attempted \cup {a}
    /\ left' = n
    /\ pc' = "papers"
    /\ last' = NoLast
    /\ UNCHANGED <<env, db, disk, conn, arg, run_set, cnt, raised, disk0,
                   batch, tally, nfetched>>
    /\ UNCHANGED <<fetchvars, callvars>>

\* One iteration of `for paper in author.papers`, db.commit() included. An
\* error of the connection leaves update() there and then, with what the
\* iteration wrote before it not committed.
Reconcile(pid, n) ==
    /\ pc = "papers"
    /\ left > 0
    /\ <<pid, n>> \in env.feed
    /\ LET p == PaperArxiv_cast(pid, n)
           d == ReconcileStore(db, p)
       IN  IF d.exc # ""
           THEN /\ db' = [d EXCEPT !.exc = ""]
                /\ pc' = "aborted"
                /\ raised' = d.exc
                /\ last' = NoLast
                /\ UNCHANGED <<disk, cnt, batch, tally, left>>
           ELSE /\ db' = d
                /\ disk' = Commit(db')
                /\ cnt' = ReconcileCount(cnt, Branch(db, p))
                /\ last' = [kind |-> "paper", p |-> p, n |-> n, pre |-> db,
                            cnt |-> cnt]
                /\ batch' = batch \cup {<<pid, n, StoredVersion(db, pid)>>}
                /\ tally' = [tally EXCEPT ![Effect(db, db', p)] = @ + 1]
                /\ left' = left - 1
                /\ pc' = IF left = 1 THEN "loop" ELSE "papers"
                /\ UNCHANGED raised
    /\ nfetched' = nfetched + 1
    /\ UNCHANGED <<env, conn, arg, todo, run_set, attempted, disk0>>
    /\ UNCHANGED <<fetchvars, callvars>>

\* The committed store after a statement of Storage.__call__ in
\* autocommit mode: the statement is on disk at once.
Uncommitted_Autocommit(view, committed) == view

\* The committed store after a statement of Storage.__call__: the
\* connection is opened with sqlite3's default isolation level, so the
\* statement stays in the open transaction until con.commit().
Uncommitted(view, committed) == committed

\* The insert branch of an iteration is left by exc after the paper and k
\* of its authors were written, before db.commit(): update() ends there.
ReconcileInterrupted(pid, n, k, exc) ==
    /\ pc = "papers"
    /\ left > 0
    /\ <<pid, n>> \in env.feed
    /\ LET p == PaperArxiv_cast(pid, n) IN
       /\ Branch(db, p) = "new"
       /\ k <= Len(p.authors)
       /\ db' = AddAuthors(PaperDB_save(db, p), SubSeq(p.authors, 1, k), p.id)
       /\ disk' = Uncommitted(db', disk)
    /\ pc' = "aborted"
    /\ raised' = exc
    /\ last' = NoLast
    /\ nfetched' = nfetched + 1
    /\ UNCHANGED <<env, conn, arg, todo, run_set, attempted, left, cnt,
                   disk0, batch, tally>>
    /\ UNCHANGED <<fetchvars, callvars>>

\* After the last followee: db.close() and the counters are printed.
UpdateDone ==
    /\ pc = "loop"
    /\ todo = {}
    /\ conn' = "closed"
    /\ pc' = "done"
    /\ last' = NoLast
    /\ UNCHANGED <<env, db, disk, arg, todo, run_set, attempted, left, cnt,
                   raised, disk0, batch, tally, nfetched>>
    /\ UNCHANGED <<fetchvars, callvars>>

\* ---------------------------------------------------- seed.from_json
\* `for author in paper.meta.authors` of from_json: the unknown ones are
\* saved as they were constructed, with _followed None.
RECURSIVE from_json_authors(_, _, _)
from_json_authors(d, authors, pid) ==
    IF authors = <<>> \/ d.exc # "" THEN d
    ELSE LET a  == Head(authors)
             d1 == IF ~AuthorDB_exists(d, a) THEN AuthorDB_save(d, a, -1) ELSE d
         IN  IF d1.exc # "" THEN d1
             ELSE from_json_authors(add_authorship(d1, a, pid), Tail(authors),
                                    pid)

\* from_json comes to a record of one of the CATEGORIES: the Paper is built
\* with Paper(id=, created=, updated=, meta=), its version the int of the
\* last character of the version tag; then PaperDB.save(paper) without a
\* call of exists, the authors, and db.commit(). Whatever is raised ends
\* the process.
FromJson(pid, n) ==
    /\ pc = "idle"
    /\ <<pid, n>> \in env.feed
    /\ conn' = "open"
    /\ disk0' = disk
    /\ last' = NoLast
    /\ LET built == Paper_init({"id", "created", "updated", "meta"},
                               <<"1">>, 1, n)
           p == [PaperArxiv_cast(pid, n) EXCEPT !.version = <<n % 10>>]
           d == from_json_authors(PaperDB_save(db, p), p.authors, p.id)
       IN  IF built # "ok"
           THEN /\ raised' = built
                /\ pc' = "aborted"
                /\ UNCHANGED <<db, disk>>
           ELSE IF d.exc # ""
           THEN /\ raised' = d.exc
                /\ pc' = "aborted"
                /\ db' = [d EXCEPT !.exc = ""]
                /\ UNCHANGED disk
           ELSE /\ raised' = ""
                /\ pc' = "done"
                /\ db' = d
                /\ disk' = Commit(d)
    /\ UNCHANGED <<env, arg, todo, run_set, attempted, left, cnt, batch,
                   tally, nfetched>>
    /\ UNCHANGED <<fetchvars, callvars>>

\* The process ends: the interpreter drops the connection, and what was not
\* committed is gone.
Exit ==
    /\ pc \in {"done", "aborted", "exited"}
    /\ pc' = "idle"
    /\ db' = disk
    /\ disk0' = disk
    /\ conn' = "none"
    /\ arg' = ""
    /\ todo' = {}
    /\ run_set' = {}
    /\ attempted' = {}
    /\ left' = 0
    /\ cnt' = ZeroCnt
    /\ batch' = {}
    /\ tally' = ZeroTally
    /\ raised' = ""
    /\ last' = NoLast
    /\ UNCHANGED <<env, disk, nfetched>>
    /\ UNCHANGED <<fetchvars, callvars>>

Next ==
    \/ \E a \in AuthorIds : FollowEnter(a)
    \/ FollowWrite
    \/ FollowCommit
    \/ FollowReturn
    \/ \E exc \in {"OperationalError", "KeyboardInterrupt"} : FollowRaise(exc)
    \/ \E n \in {0, 2} : FollowMiss(n)
    \/ \E a \in AuthorIds : UnfollowEnter(a)
    \/ UnfollowWrite
    \/ UnfollowCommit
    \/ UnfollowReturn
    \/ \E exc \in {"OperationalError", "KeyboardInterrupt"} :
           UnfollowRaise(exc)
    \/ \E n \in {0, 2} : UnfollowMiss(n)
    \/ \E pid \in DOMAIN db.paper, key \in {"KEY_LEFT", "KEY_RIGHT"} :
           TriageKey(pid, key)
    \/ UpdateStart
    \/ \E a \in AuthorIds, exc \in FetchErrors : FetchRaises(a, exc)
    \/ \E a \in AuthorIds : FetchNone(a)
    \/ \E a \in AuthorIds, n \in 1..MaxBatchPapers : FetchPapers(a, n)
    \/ \E f \in Feed \cup FeedBatch : Reconcile(f[1], f[2])
    \/ \E f \in Feed, k \in 0..2,
          exc \in {"OperationalError", "KeyboardInterrupt"} :
           ReconcileInterrupted(f[1], f[2], k, exc)
    \/ UpdateDone
    \/ \E f \in Feed : FromJson(f[1], f[2])
    \/ Exit

\* Sync runs, follow, triage and the seed over the feed of two papers.
Spec == Init /\ [][Next]_vars

\* Sync runs alone over the feed of three papers at versions 1..3, from the
\* store follow() leaves when a1 is followed first.
InitBatch ==
    /\ InitSync(EnvBatch) /\ InitFetchIdle /\ InitNoCall

FollowedFirst ==
    /\ pc = "idle"
    /\ db = EmptyStore
    /\ db' = FollowStore(db, "a1")
    /\ disk' = Commit(db')
    /\ disk0' = disk'
    /\ UNCHANGED <<env, conn, pc, arg, todo, run_set, attempted, left, cnt,
                   raised, last, batch, tally, nfetched>>
    /\ UNCHANGED <<fetchvars, callvars>>

NextBatch ==
    \/ FollowedFirst
    \/ UpdateStart
    \/ \E a \in AuthorIds, n \in 1..MaxBatchPapers : FetchPapers(a, n)
    \/ \E f \in FeedBatch : Reconcile(f[1], f[2])
    \/ UpdateDone
    \/ Exit

SpecBatch == InitBatch /\ [][NextBatch]_vars

\* --------------------------------------------------------- fetch_batch
\* A from_arxiv_api process enters its `while` and calls
\* fetch_batch(query, start_idx).
FetchBatchCall ==
    /\ fpc \in {"idle", "exited"}
    /\ fpc' = "loop"
    /\ tries' = 0
    /\ requests' = 0
    /\ page' = 0
    /\ ferr' = ""
    /\ status' = -1
    /\ UNCHANGED <<syncvars, callvars>>

\* One pass of `while True` on a response of n papers: each parsed paper is
\* built with Paper(id=, created=, updated=, meta=); then the length check.
FetchBatchPass(n) ==
    /\ fpc = "loop"
    /\ requests' = requests + 1
    /\ page' = n
    /\ LET built == Paper_init({"id", "created", "updated", "meta"},
                               <<"1">>, 1, 1) IN
       IF n > 0 /\ built # "ok"
       THEN /\ fpc' = "raised"
            /\ ferr' = built
            /\ UNCHANGED tries
       ELSE IF n # BATCH_SIZE
       THEN /\ tries' = tries + 1
            /\ fpc' = IF tries + 1 >= max_tries THEN "raised" ELSE "loop"
            /\ ferr' = IF tries + 1 >= max_tries THEN "ValueError" ELSE ""
       ELSE /\ fpc' = "returned"
            /\ UNCHANGED <<tries, ferr>>
    /\ UNCHANGED status
    /\ UNCHANGED <<syncvars, callvars>>

\* `except Exception`: whatever fetch_batch raised is logged and the process
\* is ended by sys.exit() without an argument, which is exit status 0.
FromArxivApiExcept ==
    /\ fpc = "raised"
    /\ fpc' = "exited"
    /\ status' = 0
    /\ UNCHANGED <<tries, requests, page, ferr>>
    /\ UNCHANGED <<syncvars, callvars>>

\* The `while` is not entered (start_idx > stop_index): the connection is
\* closed, the counters are printed and the process ends normally.
FromArxivApiDone ==
    /\ fpc = "idle"
    /\ fpc' = "exited"
    /\ status' = 0
    /\ UNCHANGED <<tries, requests, page, ferr>>
    /\ UNCHANGED <<syncvars, callvars>>

NextFetch ==
    \/ FetchBatchCall
    \/ \E n \in 0..BATCH_SIZE : FetchBatchPass(n)
    \/ FromArxivApiExcept
    \/ FromArxivApiDone

\* Calls of fetch_batch on any sequence of responses.
SpecFetch == Init /\ [][NextFetch]_vars

\* ------------------------------------------------------- models.py: names
\* A name is a str, here a sequence of whitespace characters and words, a
\* word being a maximal run of characters that are not whitespace. The
\* patterns of normalize_author_name tell whitespace from the other
\* characters and match a prefix or a suffix only between whitespace, so
\* they see a word as a whole.
Whitespace == {" ", "\n"}

\* The characters and words of the names, in code point order.
CodePointOrder ==
    <<"\n", " ", "Der", "John", "Jr.", "Max", "Munos", "Rémi", "Smith",
      "Ven", "der", "van">>
ord(c) == CHOOSE i \in DOMAIN CodePointOrder : CodePointOrder[i] = c

\* Python's str < str on names: lexicographic by code point.
RECURSIVE str_lt(_, _)
str_lt(s, t) ==
    IF t = <<>> THEN FALSE
    ELSE IF s = <<>> THEN TRUE
    ELSE IF Head(s) # Head(t) THEN ord(Head(s)) < ord(Head(t))
    ELSE str_lt(Tail(s), Tail(t))

\* str.lower() of a word, as re.IGNORECASE compares.
lower(w) ==
    CASE w = "Der" -> "der"
      [] w = "John" -> "john"
      [] w = "Jr." -> "jr."
      [] w = "Max" -> "max"
      [] w = "Munos" -> "munos"
      [] w = "Rémi" -> "rémi"
      [] w = "Smith" -> "smith"
      [] w = "Ven" -> "ven"
      [] OTHER -> w

\* str.strip()
RECURSIVE lstrip(_)
lstrip(s) ==
    IF s # <<>> /\ Head(s) \in Whitespace THEN lstrip(Tail(s)) ELSE s
RECURSIVE rstrip(_)
rstrip(s) ==
    IF s # <<>> /\ s[Len(s)] \in Whitespace
    THEN rstrip(SubSeq(s, 1, Len(s) - 1))
    ELSE s
strip(s) == rstrip(lstrip(s))

\* The alternatives of PREFIX_MATCH, and those of the suffix group
\* (I|II|III|IV|V|Sr|Jr|Sr\.|Jr\.) in lower case.
PREFIX_MATCH ==
    {"van", "der", "de", "la", "von", "del", "della", "da", "mac", "ter",
     "dem", "di", "vaziri"}
SuffixMatch == {"i", "ii", "iii", "iv", "v", "sr", "jr", "sr.", "jr."}

\* re.match of ^(.*)\s+ T1 \s T2 ... \s Tk $ where every Ti is a group that
\* holds no whitespace: $ is the end of the str or the place before a final
\* newline; the k words and the single whitespace between them are read
\* back from there; \s+ is whitespace before the first word; (.*) is
\* greedy, so it takes all the rest but the last of that whitespace, and as
\* `.` matches no newline it stops before the first one.
re_match_tail(s, k) ==
    LET e == IF s # <<>> /\ s[Len(s)] = "\n" THEN Len(s) - 1 ELSE Len(s)
        m == e - 2 * (k - 1) - 1
        at(i) == e - 2 * (k - i)
        J == {j \in 1..m : /\ \A i \in j..m : s[i] \in Whitespace
                           /\ \A i \in 1..(j - 1) : s[i] # "\n"}
    IN  IF \/ m < 1
           \/ \E i \in 1..k : s[at(i)] \in Whitespace
           \/ \E i \in 1..(k - 1) : s[at(i) + 1] \notin Whitespace
           \/ J = {}
        THEN [ok |-> FALSE]
        ELSE [ok |-> TRUE,
              g1 |-> SubSeq(s, 1, (CHOOSE j \in J : \A x \in J : x <= j) - 1),
              w  |-> [i \in 1..k |-> s[at(i)]]]

\* The pattern list of normalize_author_name, in its order.
patterns ==
    <<"double-prefix", "name-prefix-name", "name-name-prefix", "name-name">>

\* re.match(pattern, name, flags=re.IGNORECASE) for the pattern called mtype.
re_match(mtype, name) ==
    IF mtype = "double-prefix"
    THEN LET t == re_match_tail(name, 3) IN
         IF t.ok /\ lower(t.w[1]) \in PREFIX_MATCH
                 /\ lower(t.w[2]) \in PREFIX_MATCH
         THEN t ELSE [ok |-> FALSE]
    ELSE IF mtype = "name-prefix-name"
    THEN LET t == re_match_tail(name, 2) IN
         IF t.ok /\ lower(t.w[1]) \in PREFIX_MATCH THEN t ELSE [ok |-> FALSE]
    ELSE IF mtype = "name-name-prefix"
    THEN LET t == re_match_tail(name, 2) IN
         IF t.ok /\ lower(t.w[2]) \in SuffixMatch THEN t ELSE [ok |-> FALSE]
    ELSE re_match_tail(name, 1)

\* The author_entry built from the match of pattern mtype.
author_entry(mtype, match) ==
    IF mtype = "double-prefix"
    THEN << <<match.w[1], " ", match.w[2], " ", match.w[3]>>, match.g1, <<>> >>
    ELSE IF mtype = "name-prefix-name"
    THEN << <<match.w[1], " ", match.w[2]>>, match.g1, <<>> >>
    ELSE IF mtype = "name-name-prefix"
    THEN << <<match.w[1]>>, match.g1, <<match.w[2]>> >>
    ELSE << <<match.w[1]>>, match.g1, <<>> >>

\* next_match taking the last pattern that matches.
next_match_Last(matching) == CHOOSE i \in matching : \A j \in matching : j <= i

\* next(...) over the generator of matches: the first pattern that matches.
next_match(matching) == CHOOSE i \in matching : \A j \in matching : i <= j

\* Author.normalize_author_name: (last_name, other_names, name_suffix).
normalize_author_name(name) ==
    LET matching == {i \in DOMAIN patterns : re_match(patterns[i], name).ok}
    IN  IF matching = {} THEN <<name, <<>>, <<>>>>
        ELSE LET mtype == patterns[next_match(matching)]
             IN  author_entry(mtype, re_match(mtype, name))

\* The names normalize_author_name is called on: every name of up to
\* MaxNameLen whitespace characters and words over NameWords, and the three
\* names of the scenario.
NameWords == {"Max", "van", "Der", "Ven", "Jr."}
IsName(s) ==
    \A i \in 1..(Len(s) - 1) : s[i] \in Whitespace \/ s[i + 1] \in Whitespace
RECURSIVE NamesUpTo(_)
NamesUpTo(n) ==
    IF n = 0 THEN {<<>>}
    ELSE LET shorter == NamesUpTo(n - 1)
             longer  == {Append(t, c) :
                            t \in {u \in shorter : Len(u) = n - 1},
                            c \in Whitespace \cup NameWords}
         IN  shorter \cup {t \in longer : IsName(t)}
MaxVanDerVen == <<"Max", " ", "van", " ", "der", " ", "Ven">>
JohnSmithJr == <<"John", " ", "Smith", " ", "Jr.">>
RemiMunos == <<"Rémi", " ", "Munos">>
NameInputs == NamesUpTo(MaxNameLen) \cup {MaxVanDerVen, JohnSmithJr, RemiMunos}

InitNames ==
    /\ InitSync(EnvSpec) /\ InitFetchIdle
    /\ call \in {[op |-> "normalize", name |-> s] : s \in NameInputs}
    /\ ret = NoCall

\* Author.normalize_author_name(name) is called and returns.
NormalizeCall ==
    /\ call.op = "normalize"
    /\ ret.op = "none"
    /\ ret' = [op |-> "normalize", value |-> normalize_author_name(call.name)]
    /\ UNCHANGED <<call, syncvars, fetchvars>>

NextNames == NormalizeCall

\* normalize_author_name on every name of NameInputs.
SpecNames == InitNames /\ [][NextNames]_vars

\* ------------------------------------------------------ models.py: Author
\* xxh3_64_hexdigest / xxh3_64_intdigest of a str: a digest of the
\* characters in their order (a polynomial one stands for xxh3).
RECURSIVE xxh3_64_update(_, _)
xxh3_64_update(h, s) ==
    IF s = <<>> THEN h
    ELSE xxh3_64_update((31 * h + ord(Head(s))) % 1000003, Tail(s))
xxh3_64_hexdigest(s) == xxh3_64_update(7, s)
xxh3_64_intdigest(s) == xxh3_64_update(7, s)

\* Author.__hstr and Author.__str__: f"{other} {last} {sfx}" if sfx else
\* f"{other} {last}".
Author_hstr(a) ==
    IF a.name_suffix # <<>>
    THEN a.other_names \o <<" ">> \o a.last_name \o <<" ">> \o a.name_suffix
    ELSE a.other_names \o <<" ">> \o a.last_name
Author_str(a) ==
    IF a.name_suffix # <<>>
    THEN a.other_names \o <<" ">> \o a.last_name \o <<" ">> \o a.name_suffix
    ELSE a.other_names \o <<" ">> \o a.last_name

\* Author_init without the assertion on a supplied id.
Author_init_KeepsId(last_name, other_names, name_suffix, id, followed) ==
    LET a == [exc |-> "", last_name |-> last_name,
              other_names |-> other_names, name_suffix |-> name_suffix,
              id |-> id, followed |-> followed]
    IN  IF strip(last_name) = <<>> THEN [exc |-> "AssertionError"]
        ELSE IF id = -1 THEN [a EXCEPT !.id = xxh3_64_hexdigest(Author_hstr(a))]
        ELSE a

\* Author(last_name, other_names, name_suffix, id, _followed) and its
\* __post_init__: the Author, or the AssertionError raised. An id or a
\* _followed of None is -1; False and True are 0 and 1.
Author_init(last_name, other_names, name_suffix, id, followed) ==
    LET a == [exc |-> "", last_name |-> last_name,
              other_names |-> other_names, name_suffix |-> name_suffix,
              id |-> id, followed |-> followed]
        _id == xxh3_64_hexdigest(Author_hstr(a))
    IN  IF strip(last_name) = <<>> THEN [exc |-> "AssertionError"]
        ELSE IF id = -1 THEN [a EXCEPT !.id = _id]
        ELSE IF id # _id THEN [exc |-> "AssertionError"]
        ELSE a

\* Author.from_string
Author_from_string(string) ==
    LET t == normalize_author_name(string)
    IN  Author_init(t[1], t[2], t[3], -1, -1)

\* Author.__hash__
Author_hash(a) == xxh3_64_intdigest(Author_hstr(a))

\* Author_eq as the dataclass would generate it: field by field.
Author_eq_Fields(a, b) == a = b

\* Author.__eq__, __lt__ and __gt__ on two Authors.
Author_eq(a, b) == Author_str(a) = Author_str(b)
Author_lt(a, b) == str_lt(a.last_name, b.last_name)
Author_gt(a, b) == str_lt(b.last_name, a.last_name)

\* The parts Authors are built from, the ids supplied to the constructor
\* (None, and the digests of three names), and the parts of the Authors
\* that are compared.
Parts ==
    NamesUpTo(MaxPartLen) \cup
        {<<"Ven", " ">>, <<"van", " ", "Ven">>, <<"Max", " ", "van">>,
         <<"Ven", " ", "Jr.">>}
IdsGiven ==
    {-1} \cup {xxh3_64_hexdigest(t) :
                  t \in {<<"Max", " ", "Ven">>, <<" ", "Ven">>,
                         <<"Max", " ", "van", " ", "Ven">>}}
ComparedParts ==
    {<<>>, <<"Max">>, <<"Ven">>, <<"Jr.">>, <<"van", " ", "Ven">>,
     <<"Max", " ", "van">>}
Compared ==
    {t \in ComparedParts \X ComparedParts \X ComparedParts : t[1] # <<>>}

InitAuthor ==
    /\ InitSync(EnvSpec) /\ InitFetchIdle
    /\ ret = NoCall
    /\ \/ call \in {[op |-> "Author", last |-> l, other |-> o, suffix |-> x,
                     id |-> i] : l \in Parts, o \in Parts, x \in Parts,
                                 i \in IdsGiven}
       \/ call \in {[op |-> "from_string", last |-> l, other |-> o,
                     suffix |-> x] : l \in Parts, o \in Parts, x \in Parts}
       \/ call \in {[op |-> "compare", a |-> t, b |-> u, followed |-> f] :
                       t \in Compared, u \in Compared, f \in {-1, 0, 1}}

\* Author(last, other, suffix, id) is constructed.
AuthorCall ==
    /\ call.op = "Author"
    /\ ret.op = "none"
    /\ ret' = [op |-> "Author",
               a |-> Author_init(call.last, call.other, call.suffix, call.id,
                                 -1)]
    /\ UNCHANGED <<call, syncvars, fetchvars>>

\* a = Author(last, other, suffix), then Author.from_string(str(a)).
FromStringCall ==
    /\ call.op = "from_string"
    /\ ret.op = "none"
    /\ LET a == Author_init(call.last, call.other, call.suffix, -1, -1)
       IN  ret' = [op |-> "from_string", a |-> a,
                   b |-> IF a.exc = "" THEN Author_from_string(Author_str(a))
                         ELSE a]
    /\ UNCHANGED <<call, syncvars, fetchvars>>

\* Two Authors are constructed, the first with followed given and the
\* second followed, and compared.
CompareCall ==
    /\ call.op = "compare"
    /\ ret.op = "none"
    /\ LET a == Author_init(call.a[1], call.a[2], call.a[3], -1, call.followed)
           b == Author_init(call.b[1], call.b[2], call.b[3], -1, 1)
       IN  ret' = [op |-> "compare", a |-> a, b |-> b,
                   eq |-> Author_eq(a, b), lt |-> Author_lt(a, b),
                   gt |-> Author_gt(a, b),
                   hash_a |-> Author_hash(a), hash_b |-> Author_hash(b)]
    /\ UNCHANGED <<call, syncvars, fetchvars>>

NextAuthor ==
    \/ AuthorCall
    \/ FromStringCall
    \/ CompareCall

\* Construction, comparison and the str round trip of Authors.
SpecAuthor == InitAuthor /\ [][NextAuthor]_vars

\* ------------------------------------------------------- models.py: Paper
\* The ids Papers are built with: every str of up to MaxIdLen characters
\* over digits, the dot and "v".
IdChars == {"1", "2", ".", "v"}
PaperIds == UNION {[1..n -> IdChars] : n \in 0..MaxIdLen}

\* hash() of a paper id: some function of the str, under which different
\* ids may collide.
hash(id) == IF id = "A" THEN 0 ELSE 1

\* Paper.__hash__
Paper_hash(p) == hash(p.id)

\* Paper_eq comparing all the attributes.
Paper_eq_Fields(p, q) == p = q

\* Paper.__eq__
Paper_eq(p, q) == p.id = q.id

\* set(iterable) of Papers: an element goes in unless one with the same
\* hash that is equal to it is in already.
RECURSIVE set_add_all(_, _)
set_add_all(acc, papers) ==
    IF papers = <<>> THEN acc
    ELSE LET p == Head(papers) IN
         IF \E q \in acc : Paper_hash(q) = Paper_hash(p) /\ Paper_eq(q, p)
         THEN set_add_all(acc, Tail(papers))
         ELSE set_add_all(acc \cup {p}, Tail(papers))

\* chain.from_iterable of the authors' papers lists.
RECURSIVE chain(_)
chain(lists) ==
    IF lists = <<>> THEN <<>> ELSE Head(lists) \o chain(Tail(lists))

\* sorted(set, key=updated, reverse=True): the elements, latest first; the
\* order of those updated at the same time is the set's, which is any.
sorted_reverse(S) ==
    {r \in [1..Cardinality(S) -> S] :
        /\ \A p \in S : \E i \in DOMAIN r : r[i] = p
        /\ \A i \in 1..(Cardinality(S) - 1) : r[i].updated >= r[i + 1].updated}

\* The papers latest_papers lists: sorted(set(chain(...)))[0:num_papers or
\* None], where order is the order sorted() came to.
latest_papers(data, num_papers, order) ==
    IF num_papers = 0 THEN order
    ELSE SubSeq(order, 1, IF num_papers < Len(order) THEN num_papers
                          ELSE Len(order))

\* The Papers the authors of latest_papers hold, and their lists.
ListedPapers ==
    {[id |-> t[1], created |-> 1, updated |-> t[2],
      version |-> VersionStr(t[2]), authors |-> <<>>, visible |-> t[3]] :
        t \in {x \in {"A", "B"} \X (1..2) \X BOOLEAN : x[2] = 2 \/ x[3]}}
PaperLists == UNION {[1..n -> ListedPapers] : n \in 0..MaxListed}

InitPaper ==
    /\ InitSync(EnvSpec) /\ InitFetchIdle
    /\ ret = NoCall
    /\ \/ call \in {[op |-> "Paper", id |-> i, created |-> c, updated |-> u] :
                       i \in PaperIds, c \in 1..2, u \in 1..2}
       \/ call \in {[op |-> "latest_papers", data |-> <<l1, l2>>,
                     num_papers |-> n] :
                       l1 \in PaperLists, l2 \in PaperLists, n \in 0..2}

\* Paper(id, created, updated, meta, visible) is constructed.
PaperCall ==
    /\ call.op = "Paper"
    /\ ret.op = "none"
    /\ ret' = [op |-> "Paper",
               exc |-> Paper_init(PaperParams, call.id, call.created,
                                  call.updated)]
    /\ UNCHANGED <<call, syncvars, fetchvars>>

\* latest_papers(data, num_papers, ...) lists the papers of two authors.
LatestPapersCall ==
    /\ call.op = "latest_papers"
    /\ ret.op = "none"
    /\ \E order \in sorted_reverse(set_add_all({}, chain(call.data))) :
           ret' = [op |-> "latest_papers",
                   papers |-> latest_papers(call.data, call.num_papers, order)]
    /\ UNCHANGED <<call, syncvars, fetchvars>>

NextPaper ==
    \/ PaperCall
    \/ LatestPapersCall

\* Construction of Papers and the merged list of the latest papers.
SpecPaper == InitPaper /\ [][NextPaper]_vars

\* ----------------------------------------- models.py: AuthorDB and PaperDB
\* The repositories on the rows of the tables. A table is a function from
\* the primary key to the row, a tuple in the order of the table's columns;
\* fetchone() gives the sequence of the rows found, none or one.
\* None is -1, False and True are 0 and 1.
NoRows == <<>>

\* Author.dict()
Author_dict(a) ==
    [last_name |-> a.last_name, other_names |-> a.other_names,
     name_suffix |-> a.name_suffix, id |-> a.id, followed |-> a.followed]

\* Q.add_author on the author table: id is the primary key and followed is
\* NOT NULL with CHECK(followed in (0, 1)).
add_author(rows, params) ==
    IF params.id \in DOMAIN rows \/ params.followed \notin {0, 1}
    THEN [exc |-> "IntegrityError", rows |-> rows]
    ELSE [exc |-> "",
          rows |-> Put(rows, params.id,
                       <<params.id, params.last_name, params.other_names,
                         params.name_suffix, params.followed>>)]

\* Q.get_author ... fetchone()
get_author(rows, id) == IF id \in DOMAIN rows THEN <<rows[id]>> ELSE <<>>

\* AuthorDB.get: `_id, last, other, suffix, followed = res`, then
\* Author(last, other, suffix, _id, followed).
AuthorDB_get(rows, id) ==
    LET res == get_author(rows, id) IN
    IF res = <<>> THEN [exc |-> "TypeError"]
    ELSE Author_init(res[1][2], res[1][3], res[1][4], res[1][1], res[1][5])

\* asdict(meta) of Paper.dict(): the Authors of the list become dicts.
asdict(p) ==
    [version |-> p.version,
     authors |-> [i \in DOMAIN p.authors |-> Author_dict(p.authors[i])]]

\* json.dumps and json.loads of such a dict: str, int, None and lists
\* come back as they went in.
json_dumps(d) == [json |-> d]
json_loads(t) == t.json

\* Q.add_paper on the paper table: the INSERT names id, updated, created
\* and meta; visible takes the column's DEFAULT 1.
add_paper(rows, params) ==
    IF params.id \in DOMAIN rows
    THEN [exc |-> "IntegrityError", rows |-> rows]
    ELSE [exc |-> "",
          rows |-> Put(rows, params.id,
                       <<params.id, params.updated, params.created,
                         params.meta, 1>>)]

\* PaperDB.save: Q.add_paper with {**data, "meta": json.dumps(data["meta"])}.
PaperDB_save_row(rows, p) ==
    add_paper(rows, [id |-> p.id, created |-> p.created,
                     updated |-> p.updated, meta |-> json_dumps(asdict(p)),
                     visible |-> p.visible])

\* Q.get_paper ... fetchone()
get_paper(rows, id) == IF id \in DOMAIN rows THEN <<rows[id]>> ELSE <<>>

\* PaperDB_from_res reading the row as id, created, updated, meta, visible.
PaperDB_from_res_Swapped(res) ==
    LET meta == json_loads(res[4])
        exc  == Paper_init(PaperParams, res[1], res[2], res[3])
    IN  [exc |-> exc, id |-> res[1], created |-> res[2], updated |-> res[3],
         version |-> meta.version, authors |-> meta.authors,
         visible |-> (res[5] # 0)]

\* PaperDB._from_res: `id_, updated, created, meta, visible = res`, then
\* Paper(id_, created, updated, PaperMeta(**json.loads(meta)), bool(visible)).
PaperDB_from_res(res) ==
    LET meta == json_loads(res[4])
        exc  == Paper_init(PaperParams, res[1], res[3], res[2])
    IN  [exc |-> exc, id |-> res[1], created |-> res[3], updated |-> res[2],
         version |-> meta.version, authors |-> meta.authors,
         visible |-> (res[5] # 0)]

\* PaperDB.get
PaperDB_get_row(rows, id) ==
    LET res == get_paper(rows, id) IN
    IF res = <<>> THEN [exc |-> "TypeError"] ELSE PaperDB_from_res(res[1])

\* The Authors and Papers that are saved: the Authors of Compared with
\* _followed None, False or True; Papers with one of two ids, timestamps
\* with created <= updated, a version "1" or "10", hidden or visible, and
\* none or one Author. The table holds nothing, another row, or a row of
\* the same id.
SavedAuthors ==
    {Author_init(t[1], t[2], t[3], -1, f) : t \in Compared, f \in {-1, 0, 1}}
SavedPapers ==
    {[id |-> i, created |-> t[1], updated |-> t[2], version |-> VersionStr(n),
      authors |-> l, visible |-> v] :
        i \in {<<"1">>, <<"2", ".", "1">>},
        t \in {<<1, 1>>, <<1, 2>>, <<2, 2>>},
        n \in {1, 10},
        l \in {<<>>, <<Author_init(<<"Ven">>, <<"Max">>, <<>>, -1, -1)>>},
        v \in BOOLEAN}
OtherAuthor == Author_init(<<"Munos">>, <<"Rémi">>, <<>>, -1, 1)
OtherPaper ==
    [id |-> <<"1", ".", "2">>, created |-> 1, updated |-> 1,
     version |-> VersionStr(1), authors |-> <<>>, visible |-> TRUE]
Prior == {"empty", "other", "same"}
UpdatePrior == Prior \cup {"both"}

InitRepo ==
    /\ InitSync(EnvSpec) /\ InitFetchIdle
    /\ ret = NoCall
    /\ \/ call \in {[op |-> "AuthorDB", a |-> a, prior |-> x] :
                       a \in SavedAuthors, x \in Prior}
       \/ call \in {[op |-> "PaperDB", p |-> p, prior |-> x] :
                       p \in SavedPapers, x \in Prior}
       \/ call \in {[op |-> "AuthorDB.update", a |-> a, prior |-> x] :
                       a \in {s \in SavedAuthors : s.exc = ""},
                       x \in UpdatePrior}

\* AuthorDB(db).save(a) on the table as it was.
AuthorDBSave ==
    /\ call.op = "AuthorDB"
    /\ ret.op = "none"
    /\ LET rows == IF call.prior = "empty" THEN NoRows
                   ELSE IF call.prior = "other"
                   THEN add_author(NoRows, Author_dict(OtherAuthor)).rows
                   ELSE add_author(NoRows,
                            Author_dict([call.a EXCEPT !.followed = 0])).rows
           done == add_author(rows, Author_dict(call.a))
       IN  ret' = [op |-> "saved", exc |-> done.exc, rows |-> done.rows]
    /\ UNCHANGED <<call, syncvars, fetchvars>>

\* AuthorDB(db).get(a.id) after it.
AuthorDBGet ==
    /\ call.op = "AuthorDB"
    /\ ret.op = "saved"
    /\ ret' = [op |-> "got", saved |-> ret.exc,
               got |-> AuthorDB_get(ret.rows, call.a.id)]
    /\ UNCHANGED <<call, syncvars, fetchvars>>

\* PaperDB(db).save(p) on the table as it was.
PaperDBSave ==
    /\ call.op = "PaperDB"
    /\ ret.op = "none"
    /\ LET rows == IF call.prior = "empty" THEN NoRows
                   ELSE IF call.prior = "other"
                   THEN PaperDB_save_row(NoRows, OtherPaper).rows
                   ELSE PaperDB_save_row(NoRows,
                            [OtherPaper EXCEPT !.id = call.p.id]).rows
           done == PaperDB_save_row(rows, call.p)
       IN  ret' = [op |-> "saved", exc |-> done.exc, rows |-> done.rows]
    /\ UNCHANGED <<call, syncvars, fetchvars>>

\* PaperDB(db).get(p.id) after it.
PaperDBGet ==
    /\ call.op = "PaperDB"
    /\ ret.op = "saved"
    /\ ret' = [op |-> "got", saved |-> ret.exc,
               got |-> PaperDB_get_row(ret.rows, call.p.id)]
    /\ UNCHANGED <<call, syncvars, fetchvars>>

\* follow_author without its WHERE clause: every row gets the flag.
follow_author_NoWhere(rows, params) ==
    [x \in DOMAIN rows |-> [rows[x] EXCEPT ![5] = params.followed]]

\* Q.follow_author: UPDATE author SET followed = :followed WHERE id = :id.
follow_author(rows, params) ==
    [x \in DOMAIN rows |->
        IF rows[x][1] = params.id
        THEN [rows[x] EXCEPT ![5] = params.followed]
        ELSE rows[x]]

\* AuthorDB.update on the three tables: the one statement, on the author
\* table, with int(author.followed); int(None) is a TypeError raised before
\* the statement is sent.
AuthorDB_update_row(tables, a) ==
    IF a.followed = -1 THEN [exc |-> "TypeError", tables |-> tables]
    ELSE [exc |-> "",
          tables |-> [tables EXCEPT !.author =
              follow_author(@, [id |-> a.id, followed |-> a.followed])]]

\* The tables AuthorDB.update is called on: the author table with no row, a
\* row of another author, a row of the same id (the other flag stored), or
\* both rows; one paper of the other author.
UpdateTables(a, prior) ==
    LET same  == Author_dict([a EXCEPT !.followed = IF @ = 1 THEN 0 ELSE 1])
        other == Author_dict(OtherAuthor)
        t1 == IF prior \in {"other", "both"}
              THEN add_author(NoRows, other).rows ELSE NoRows
        t2 == IF prior \in {"same", "both"}
              THEN add_author(t1, same).rows ELSE t1
    IN  [author |-> t2,
         paper |-> PaperDB_save_row(NoRows, OtherPaper).rows,
         authorship |-> IF prior \in {"other", "both"}
                        THEN <<<<OtherAuthor.id, OtherPaper.id>>>> ELSE <<>>]

\* AuthorDB(db).update(a) on the tables as they were.
AuthorDBUpdate ==
    /\ call.op = "AuthorDB.update"
    /\ ret.op = "none"
    /\ LET pre  == UpdateTables(call.a, call.prior)
           done == AuthorDB_update_row(pre, call.a)
       IN  ret' = [op |-> "updated", exc |-> done.exc, pre |-> pre,
                   post |-> done.tables]
    /\ UNCHANGED <<call, syncvars, fetchvars>>

NextRepo ==
    \/ AuthorDBSave
    \/ AuthorDBGet
    \/ PaperDBSave
    \/ PaperDBGet
    \/ AuthorDBUpdate

\* save followed by get of the same id, on Authors and on Papers.
SpecRepo == InitRepo /\ [][NextRepo]_vars

\* -------------------------------------------- models.py: get_followees
\* The names behind the two author ids of the store, and the author table
\* of a store as rows: the id column holds the digest of the name.
AuthorNames(a) ==
    IF a = "a1" THEN <<<<"Ven">>, <<"Max">>, <<>>>>
    ELSE <<<<"Munos">>, <<"Rémi">>, <<"Jr.">>>>
AuthorRows ==
    [a \in AuthorIds |-> [followed \in {0, 1} |->
        LET n == AuthorNames(a)
            x == Author_init(n[1], n[2], n[3], -1, followed)
        IN  <<x.id, x.last_name, x.other_names, x.name_suffix, followed>>]]
AuthorRow(a, followed) == AuthorRows[a][followed]
author_table(d) ==
    LET rs == {AuthorRow(a, d.author[a].followed) : a \in DOMAIN d.author}
    IN  [i \in {r[1] : r \in rs} |-> CHOOSE r \in rs : r[1] = i]

\* get_followed without its WHERE clause.
get_followed_All(rows) == {rows[i] : i \in DOMAIN rows}

\* Q.get_followed ... fetchall(): SELECT * FROM author WHERE followed = 1.
get_followed(rows) == {rows[i] : i \in {j \in DOMAIN rows : rows[j][5] = 1}}

\* set(list) of Authors: of the elements that have the same hash and are
\* equal, one stays.
author_set(S) ==
    CHOOSE T \in SUBSET S :
        /\ \A x \in S : \E y \in T :
               Author_hash(x) = Author_hash(y) /\ Author_eq(x, y)
        /\ \A y \in T : \A z \in T \ {y} :
               ~(Author_hash(y) = Author_hash(z) /\ Author_eq(y, z))

\* AuthorDB.get_followees on the rows:
\* set([Author(l, o, s, i, f) for i, l, o, s, f in res]).
AuthorDB_get_followees_rows(rows) ==
    author_set({Author_init(r[2], r[3], r[4], r[1], r[5]) :
                   r \in get_followed(rows)})

\* ------------------------------------------- models.py: get_papers_, show
\* Q.get_papers_by_author_id: the author row of id aid joined to its
\* authorship rows and those to their paper rows, one result row per
\* authorship row, WHERE paper.updated BETWEEN :starting_date AND
\* datetime("now"). Timestamps of the one fixed-width format compare as
\* text the way the numbers they are modelled by do.
RECURSIVE get_papers_by_author_id(_, _, _, _, _)
get_papers_by_author_id(d, edges, aid, starting_date, now) ==
    IF edges = <<>> THEN <<>>
    ELSE LET e    == Head(edges)
             rest == get_papers_by_author_id(d, Tail(edges), aid,
                                             starting_date, now)
         IN  IF /\ aid \in DOMAIN d.author
                /\ e[1] = aid
                /\ e[2] \in DOMAIN d.paper
                /\ starting_date <= d.paper[e[2]].updated
                /\ d.paper[e[2]].updated <= now
             THEN <<[id |-> e[2], updated |-> d.paper[e[2]].updated,
                     created |-> d.paper[e[2]].created,
                     visible |-> IF d.paper[e[2]].visible THEN 1 ELSE 0]>>
                  \o rest
             ELSE rest

\* get_papers_ without the `if only_visible and not visible: continue`.
RECURSIVE get_papers_ShowsHidden(_, _, _)
get_papers_ShowsHidden(res, only_visible, papers) ==
    IF res = <<>> THEN papers
    ELSE get_papers_ShowsHidden(Tail(res), only_visible,
             Append(papers, [id |-> Head(res).id,
                             created |-> Head(res).created,
                             updated |-> Head(res).updated,
                             visible |-> Head(res).visible # 0]))

\* AuthorDB.get_papers_, the loop over res: the rows that are not visible
\* are skipped when only_visible, the others appended to author._papers as
\* Paper(pid, created, updated, meta, bool(visible)).
RECURSIVE get_papers_(_, _, _)
get_papers_(res, only_visible, papers) ==
    IF res = <<>> THEN papers
    ELSE IF only_visible /\ Head(res).visible = 0
    THEN get_papers_(Tail(res), only_visible, papers)
    ELSE get_papers_(Tail(res), only_visible,
             Append(papers, [id |-> Head(res).id,
                             created |-> Head(res).created,
                             updated |-> Head(res).updated,
                             visible |-> Head(res).visible # 0]))

\* AuthorDB(db).get_papers_(author, starting_date, only_visible) for an
\* author whose _papers is None: author._papers afterwards.
AuthorDB_get_papers_(d, aid, starting_date, only_visible, now) ==
    get_papers_(get_papers_by_author_id(d, d.authorship, aid, starting_date,
                                        now),
                only_visible, <<>>)

\* show() without an author: the papers list of every followee, filled by
\* get_papers_(followee, opt.since, True); the views list from these.
show(d, since, now) ==
    [a \in AuthorDB_get_followees(d) |->
        AuthorDB_get_papers_(d, a, since, TRUE, now)]

\* The stores read: papers A and B, stored or not, updated at one of the
\* times and visible or hidden; the two authors, followed or not; up to
\* MaxEdges authorship rows between stored rows, a pair twice included.
\* The clock stands at the time before the last.
MaxTime == 3
MaxEdges == 2
ShownRows ==
    {[updated |-> u, created |-> 1, version |-> VersionStr(1),
      authors |-> <<>>, visible |-> v] : u \in 1..MaxTime, v \in BOOLEAN}
ShownStores ==
    {d \in [paper : UNION {[S -> ShownRows] : S \in SUBSET {"A", "B"}},
            author : [AuthorIds -> {[followed |-> 0], [followed |-> 1]}],
            authorship : UNION {[1..n -> AuthorIds \X {"A", "B"}] :
                                   n \in 0..MaxEdges},
            exc : {""}] :
        \A i \in DOMAIN d.authorship : d.authorship[i][2] \in DOMAIN d.paper}

InitShow ==
    /\ InitSync(EnvSpec) /\ InitFetchIdle
    /\ ret = NoCall
    /\ \/ call \in {[op |-> "get_papers_", d |-> d, author |-> a,
                     since |-> s, only_visible |-> v, now |-> n] :
                       d \in ShownStores, a \in AuthorIds, s \in 1..MaxTime,
                       v \in BOOLEAN, n \in {MaxTime - 1}}
       \/ call \in {[op |-> "show", d |-> d, since |-> s, now |-> n] :
                       d \in ShownStores, s \in 1..MaxTime,
                       n \in {MaxTime - 1}}

GetPapersCall ==
    /\ call.op = "get_papers_"
    /\ ret.op = "none"
    /\ ret' = [op |-> "get_papers_",
               papers |-> AuthorDB_get_papers_(call.d, call.author, call.since,
                                               call.only_visible, call.now)]
    /\ UNCHANGED <<call, syncvars, fetchvars>>

ShowCall ==
    /\ call.op = "show"
    /\ ret.op = "none"
    /\ ret' = [op |-> "show", papers |-> show(call.d, call.since, call.now)]
    /\ UNCHANGED <<call, syncvars, fetchvars>>

NextShow ==
    \/ GetPapersCall
    \/ ShowCall

\* get_papers_ and show on a store as it is read.
SpecShow == InitShow /\ [][NextShow]_vars

\* ------------------------------------------------- triage(): controller
\* Longest list of papers triaged, and most keys pressed in one session.
MaxTriaged == 3
MaxKeys == 4
\* What getch() returns: the arrow keys and "q", by the names of their
\* codes; key is 0 before the first.
Keys == {"KEY_DOWN", "KEY_UP", "KEY_LEFT", "KEY_RIGHT", "q"}

\* The `match key` of the controller without the min() of its last two
\* cases.
controls_Unbounded(cursor, key, len) ==
    IF key = "KEY_DOWN" THEN IF cursor - 1 > 0 THEN cursor - 1 ELSE 0
    ELSE IF key \in {"KEY_LEFT", "KEY_RIGHT"} THEN cursor + 1
    ELSE cursor

\* The `match key` of the controller: max(0, cursor - 1) for KEY_DOWN,
\* min(len(papers) - 1, cursor + 1) for KEY_LEFT and for KEY_RIGHT, and no
\* case for another key.
controls(cursor, key, len) ==
    IF key = "KEY_DOWN" THEN IF cursor - 1 > 0 THEN cursor - 1 ELSE 0
    ELSE IF key \in {"KEY_LEFT", "KEY_RIGHT"}
    THEN IF cursor + 1 < len - 1 THEN cursor + 1 ELSE len - 1
    ELSE cursor

\* The papers triage() hands to the controller: Papers of distinct ids
\* (they come out of a set), visible or hidden, latest first.
TriagedIds == <<"A", "B", "C", "D">>
TriagedLists ==
    UNION {{[i \in 1..n |->
              [id |-> TriagedIds[i], created |-> 1, updated |-> 1,
               version |-> VersionStr(1), authors |-> <<>>,
               visible |-> v[i]]] : v \in [1..n -> BOOLEAN]} :
          n \in 0..MaxTriaged}
\* The store they were read from.
TriagedStore(papers) ==
    [EmptyStore EXCEPT !.paper =
        [pid \in {papers[i].id : i \in DOMAIN papers} |->
            LET p == CHOOSE q \in {papers[i] : i \in DOMAIN papers} :
                         q.id = pid
            IN  [updated |-> p.updated, created |-> p.created,
                 version |-> p.version, authors |-> p.authors,
                 visible |-> p.visible]]]

InitTriage ==
    /\ InitSync(EnvSpec) /\ InitFetchIdle
    /\ ret = NoCall
    /\ call \in {[op |-> "controller", papers |-> l] : l \in TriagedLists}

\* controller(stdscr, view, papers) up to the `while`: the with block is
\* entered and cursor, key = 0, 0.
ControllerEnter ==
    /\ call.op = "controller"
    /\ ret.op = "none"
    /\ ret' = [op |-> "loop", cursor |-> 0, key |-> "0", pressed |-> 0,
               papers |-> call.papers, disk |-> TriagedStore(call.papers),
               exc |-> ""]
    /\ UNCHANGED <<call, syncvars, fetchvars>>

\* One pass of the `while key != ord("q")`: papers[cursor] (cursor counts
\* from 0; an index past the end is an IndexError), the view, getch()
\* returns k, the controls, and the paper that was shown is hidden or shown
\* again, stored and committed.
ControllerKey(k) ==
    /\ call.op = "controller"
    /\ ret.op = "loop"
    /\ ret.key # "q"
    /\ ret.pressed < MaxKeys
    /\ IF ret.cursor >= Len(ret.papers)
       THEN ret' = [ret EXCEPT !.op = "raised", !.exc = "IndexError"]
       ELSE LET paper  == ret.papers[ret.cursor + 1]
                cursor == controls(ret.cursor, k, Len(ret.papers))
                flag   == IF k = "KEY_LEFT" /\ paper.visible THEN FALSE
                          ELSE IF k = "KEY_RIGHT" /\ ~paper.visible THEN TRUE
                          ELSE paper.visible
                shown  == [paper EXCEPT !.visible = flag]
            IN  ret' = [ret EXCEPT
                    !.cursor = cursor,
                    !.key = k,
                    !.pressed = @ + 1,
                    !.papers[ret.cursor + 1] = shown,
                    !.disk = IF flag # paper.visible
                             THEN Commit(PaperDB_update(@, shown)) ELSE @]
    /\ UNCHANGED <<call, syncvars, fetchvars>>

\* key is ord("q"): the `while` ends, and the with block with it.
ControllerReturn ==
    /\ call.op = "controller"
    /\ ret.op = "loop"
    /\ ret.key = "q"
    /\ ret' = [ret EXCEPT !.op = "returned",
                          !.disk = Storage_exit(@, @, "")]
    /\ UNCHANGED <<call, syncvars, fetchvars>>

NextTriage ==
    \/ ControllerEnter
    \/ \E k \in Keys : ControllerKey(k)
    \/ ControllerReturn

\* The triage controller on any list of papers and any keys.
SpecTriage == InitTriage /\ [][NextTriage]_vars

\* ================================================================ claims
\* The step taken last reconciled a fetched paper.
LastPaper == last.kind = "paper"
\* ... whose id was stored before the step.
LastKnown == LastPaper /\ last.p.id \in DOMAIN last.pre.paper
\* The version that was stored for it, as a number.
LastStored == StoredVersion(last.pre, last.p.id)

\* C1: a stored paper at version v and a fetched paper of the same id at a
\* version v' > v, compared as integers: after the iteration the stored
\* version is v' and the paper was counted as updated.
C1_NewerIsStored ==
    (LastKnown /\ last.n > LastStored) =>
        /\ StoredVersion(disk, last.p.id) = last.n
        /\ cnt.upd = last.cnt.upd + 1

\* C2: a fetched version equal to the stored one: nothing is written (the
\* paper's row, every other row, the authors and the authorship rows are as
\* before, in the connection's view and on disk) and only the unchanged
\* counter moves, by one.
C2_SameVersionNoWrite ==
    (LastKnown /\ last.n = LastStored) =>
        /\ db = last.pre
        /\ disk = last.pre
        /\ cnt = [last.cnt EXCEPT !.old = @ + 1]

\* C2's case, with a stored row that differs from the fetched paper: the
\* stored paper was hidden in triage, the fetched one is visible.
C2_Witness ==
    /\ LastKnown
    /\ last.n = LastStored
    /\ ~last.pre.paper[last.p.id].visible
    /\ last.p.visible

\* C3: a fetched version lower than the stored one: the stored row is as
\* before and neither counter moves.
C3_LowerIsRejected ==
    (LastKnown /\ last.n < LastStored) =>
        /\ db = last.pre
        /\ disk = last.pre
        /\ cnt = last.cnt

\* C4: a fetched paper whose id is not stored: the paper is inserted, every
\* listed author that was not stored is inserted with followed = 0, the
\* stored authors and papers are as before, and the authorship table grows
\* by one row per entry of the author list, in order; all of it committed.
C4_UnknownIsInserted ==
    (LastPaper /\ ~LastKnown) =>
        LET p   == last.p
            pre == last.pre
            listed == {p.authors[i] : i \in DOMAIN p.authors}
        IN  /\ DOMAIN db.paper = DOMAIN pre.paper \cup {p.id}
            /\ db.paper[p.id] = [updated |-> p.updated, created |-> p.created,
                                 version |-> p.version, authors |-> p.authors,
                                 visible |-> TRUE]
            /\ \A q \in DOMAIN pre.paper : db.paper[q] = pre.paper[q]
            /\ DOMAIN db.author = DOMAIN pre.author \cup listed
            /\ \A a \in DOMAIN db.author :
                   IF a \in DOMAIN pre.author
                   THEN db.author[a] = pre.author[a]
                   ELSE db.author[a].followed = 0
            /\ db.authorship = pre.authorship \o
                   [i \in DOMAIN p.authors |-> <<p.authors[i], p.id>>]
            /\ disk = db

\* C4's case, with one listed author stored before and one not.
C4_Witness ==
    /\ LastPaper
    /\ ~LastKnown
    /\ \E i, j \in DOMAIN last.p.authors :
           /\ last.p.authors[i] \in DOMAIN last.pre.author
           /\ last.p.authors[j] \notin DOMAIN last.pre.author

\* The batch of the scenario: A not stored, B stored and fetched at 2,
\* C stored at 1 and fetched at 3, three occurrences in all.
ScenarioBatch ==
    /\ tally.ins + tally.upd + tally.same + tally.rej + tally.none = 3
    /\ \E n \in 1..MaxBatchVersion :
           batch = {<<"A", n, 0>>, <<"B", 2, 2>>, <<"C", 3, 1>>}

\* C5: at the end of update() the three counters are the numbers of
\* occurrences that were inserted, updated in place and left unchanged, so
\* they add up to the occurrences less the rejected ones; the scenario's
\* batch ends with {new: 1, unchanged: 1, updated: 1} and C stored at 3.
C5_Counters ==
    pc = "done" =>
        /\ cnt.new = tally.ins
        /\ cnt.upd = tally.upd
        /\ cnt.old = tally.same
        /\ cnt.new + cnt.upd + cnt.old + tally.rej =
               tally.ins + tally.upd + tally.same + tally.rej + tally.none
        /\ ScenarioBatch =>
               /\ cnt = [new |-> 1, old |-> 1, upd |-> 1]
               /\ StoredVersion(disk, "C") = 3

\* C5's case: a run that reconciled the scenario's batch has ended.
C5_Witness == pc = "done" /\ ScenarioBatch

\* The outcome (id stored?, integer comparison of the versions) selects.
Selected ==
    IF ~LastKnown THEN "ins"
    ELSE IF last.n = LastStored THEN "same"
    ELSE IF last.n > LastStored THEN "upd"
    ELSE "rej"

\* C6: every reconciled occurrence ends in the one outcome that (id
\* stored?, version comparison) selects: inserted, updated, unchanged (the
\* old counter moved) or rejected (no counter moved).
C6_OneOutcome ==
    LastPaper =>
        /\ Effect(last.pre, db, last.p) = Selected
        /\ Selected = "ins" => cnt = [last.cnt EXCEPT !.new = @ + 1]
        /\ Selected = "upd" => cnt = [last.cnt EXCEPT !.upd = @ + 1]
        /\ Selected = "same" => cnt = [last.cnt EXCEPT !.old = @ + 1]
        /\ Selected = "rej" => cnt = last.cnt

\* C7: when a with Storage() block is left, the connection is closed, what
\* the block wrote is committed if nothing was raised, and what it had not
\* committed is rolled back if anything was raised.
C7_ExitContract ==
    last.kind = "exit" =>
        /\ conn = "closed"
        /\ last.exc = "" => disk = last.view
        /\ last.exc # "" => disk = last.committed

\* C8: update() left by a construction error: the unit of work is rolled
\* back, so the committed store is the one the run started from.
C8_AbortRollsBack ==
    (pc = "aborted" /\ raised = "AssertionError") => disk = disk0

\* C9: a fetch failure of any kind does not end the run: when update() is
\* over, every followee of the run was fetched and nothing was raised out
\* of it.
C9_FetchFailureContinues ==
    pc \in {"done", "aborted"} =>
        /\ attempted = run_set
        /\ raised = ""

\* C10: fetch_batch retries every empty or short page: it makes at most
\* max_tries requests, returns only a page of BATCH_SIZE papers, returns
\* when it gets one, and raises only once max_tries pages were short.
C10_RetryUntilFullPage ==
    /\ requests <= max_tries
    /\ fpc = "returned" => page = BATCH_SIZE
    /\ (fpc # "idle" /\ requests > 0 /\ page = BATCH_SIZE) => fpc = "returned"
    /\ fpc = "raised" => requests = max_tries

\* C11: a from_arxiv_api process that ended after fetch_batch had used up
\* its tries (ValueError) has a non-zero exit status.
C11_ExhaustedExitsNonZero ==
    (fpc = "exited" /\ ferr = "ValueError") => status # 0

\* The pattern order the claim gives (the code calls the suffix pattern
\* "name-name-prefix").
ClaimedOrder ==
    <<"double-prefix", "name-prefix-name", "name-name-prefix", "name-name">>

\* C16: normalize_author_name returns the split of the first pattern, in the
\* order double-prefix, name-prefix-name, name-name-suffix, name-name, that
\* matches the name, whichever later patterns match it too; the three names
\* of the scenario are split as stated.
C16_FirstMatchWins ==
    ret.op = "normalize" =>
        /\ \A i \in DOMAIN ClaimedOrder :
               ( /\ re_match(ClaimedOrder[i], call.name).ok
                 /\ \A j \in 1..(i - 1) :
                        ~re_match(ClaimedOrder[j], call.name).ok )
               => ret.value = author_entry(ClaimedOrder[i],
                                  re_match(ClaimedOrder[i], call.name))
        /\ call.name = MaxVanDerVen =>
               ret.value = << <<"van", " ", "der", " ", "Ven">>, <<"Max">>, <<>> >>
        /\ call.name = JohnSmithJr =>
               ret.value = << <<"Smith">>, <<"John">>, <<"Jr.">> >>
        /\ call.name = RemiMunos =>
               ret.value = << <<"Munos">>, <<"Rémi">>, <<>> >>

\* C16's case: a name that an earlier and a later pattern both match has
\* been normalized.
C16_Witness ==
    /\ ret.op = "normalize"
    /\ call.name = MaxVanDerVen
    /\ re_match("double-prefix", call.name).ok
    /\ re_match("name-name", call.name).ok

\* C17: normalize_author_name(raw) is normalize_author_name(raw.strip()),
\* so a single word inside whitespace gives (word, "", "").
C17_TrimmedInput ==
    (ret.op = "normalize" /\ strip(call.name) # <<>>) =>
        /\ ret.value = normalize_author_name(strip(call.name))
        /\ Len(strip(call.name)) = 1 =>
               ret.value = <<strip(call.name), <<>>, <<>>>>

\* C12: an Author constructed with an id that is not the digest of its
\* canonical join string is refused; without an id it gets that digest; so
\* every constructed Author has id = digest(join string).
C12_IdentityValidated ==
    ret.op = "Author" =>
        LET join == Author_hstr([last_name |-> call.last,
                                 other_names |-> call.other,
                                 name_suffix |-> call.suffix])
        IN  /\ (call.id # -1 /\ call.id # xxh3_64_hexdigest(join)) =>
                   ret.a.exc = "AssertionError"
            /\ (call.id = -1 /\ strip(call.last) # <<>>) =>
                   ret.a.exc = "" /\ ret.a.id = xxh3_64_hexdigest(join)
            /\ ret.a.exc = "" => ret.a.id = xxh3_64_hexdigest(join)

\* C12's case: a construction with a supplied id that differs from the
\* recomputed one.
C12_Witness ==
    /\ ret.op = "Author"
    /\ call.id # -1
    /\ strip(call.last) # <<>>
    /\ call.id # xxh3_64_hexdigest(Author_hstr([last_name |-> call.last,
           other_names |-> call.other, name_suffix |-> call.suffix]))

\* C13: two Authors are equal iff their display strings are equal, however
\* the name is split over the three fields and whatever the followed flags;
\* equal Authors have the same id and the same hash; < and > compare the
\* last names only.
C13_EqualityByDisplayString ==
    ret.op = "compare" =>
        /\ ret.eq <=> (Author_str(ret.a) = Author_str(ret.b))
        /\ ret.eq => (ret.a.id = ret.b.id /\ ret.hash_a = ret.hash_b)
        /\ ret.lt <=> str_lt(call.a[1], call.b[1])
        /\ ret.gt <=> str_lt(call.b[1], call.a[1])

\* C13's case: equal Authors whose names are split differently and whose
\* followed flags differ.
C13_Witness ==
    /\ ret.op = "compare"
    /\ ret.eq
    /\ ret.a.last_name # ret.b.last_name
    /\ ret.a.followed # ret.b.followed

\* C18: for every triple t that Author accepts, Author.from_string(str(a))
\* of a = Author(t) is constructed and has the id of a.
C18_IdentityPipelineIdempotent ==
    (ret.op = "from_string" /\ ret.a.exc = "") =>
        /\ ret.b.exc = ""
        /\ ret.b.id = ret.a.id

\* The id ends in a version marker: "v" and one or more digits.
Versioned(id) ==
    \E k \in 2..(Len(id) - 1) :
        /\ id[k] = "v"
        /\ \A i \in (k + 1)..Len(id) : id[i] \in {"1", "2"}

\* C14: a Paper whose id ends in a version marker is not constructed.
C14_VersionedIdRefused ==
    (ret.op = "Paper" /\ Versioned(call.id)) => ret.exc # "ok"

\* C15: Papers are equal, and hash alike, iff their ids are equal, so the
\* merged list of latest_papers holds no id twice, and without a limit it
\* holds every id of the authors' lists.
C15_PaperEqualityById ==
    ret.op = "latest_papers" =>
        LET all == chain(call.data) IN
        /\ \A i, j \in DOMAIN all :
               /\ Paper_eq(all[i], all[j]) <=> (all[i].id = all[j].id)
               /\ Paper_eq(all[i], all[j]) =>
                      Paper_hash(all[i]) = Paper_hash(all[j])
        /\ \A i, j \in DOMAIN ret.papers :
               ret.papers[i].id = ret.papers[j].id => i = j
        /\ call.num_papers = 0 =>
               {ret.papers[i].id : i \in DOMAIN ret.papers} =
                   {all[i].id : i \in DOMAIN all}

\* C15's case: a paper held by both authors, with different visibility
\* and timestamps, has been listed.
C15_Witness ==
    /\ ret.op = "latest_papers"
    /\ \E i \in DOMAIN call.data[1], j \in DOMAIN call.data[2] :
           /\ call.data[1][i].id = call.data[2][j].id
           /\ call.data[1][i].visible # call.data[2][j].visible
           /\ call.data[1][i].updated # call.data[2][j].updated
           /\ \E k \in DOMAIN ret.papers :
                  ret.papers[k].id = call.data[1][i].id

\* C19: after a save that succeeded, get of the same id succeeds; the
\* Author it returns is equal to the saved one, the Paper it returns is
\* equal to the saved one and has its version and its timestamps.
C19_SaveGetRoundTrip ==
    (ret.op = "got" /\ ret.saved = "") =>
        /\ call.op = "AuthorDB" =>
               /\ ret.got.exc = ""
               /\ Author_eq(ret.got, call.a)
        /\ call.op = "PaperDB" =>
               /\ ret.got.exc = "ok"
               /\ Paper_eq(ret.got, call.p)
               /\ ret.got.version = call.p.version
               /\ ret.got.created = call.p.created
               /\ ret.got.updated = call.p.updated

\* C19's case: a hidden Paper updated after it was created was saved beside
\* another row and read back.
C19_Witness ==
    /\ ret.op = "got"
    /\ ret.saved = ""
    /\ call.op = "PaperDB"
    /\ call.prior = "other"
    /\ call.p.created < call.p.updated
    /\ ~call.p.visible

\* C20: no save of update(), follow() or from_json() meets a row of the
\* same id: no insert is refused for its primary key, in the connection's
\* view or on disk.
C20_NoDuplicateInsert ==
    /\ raised # "IntegrityError"
    /\ db.exc = ""
    /\ disk.exc = ""

\* C20's case: update() has inserted a paper that lists one author twice,
\* which was not stored before: it was saved at its first entry and found by
\* exists at its second.
C20_Witness ==
    /\ LastPaper
    /\ ~LastKnown
    /\ \E i, j \in DOMAIN last.p.authors :
           /\ i # j
           /\ last.p.authors[i] = last.p.authors[j]
           /\ last.p.authors[i] \notin DOMAIN last.pre.author
           /\ last.p.authors[i] \in DOMAIN db.author

\* C21: AuthorDB.update changes only the followed flag of the row with the
\* author's id: the id, last name, other names and suffix of that row, every
\* other author row, and every paper and authorship row are as before.
C21_UpdateSetsOnlyFlag ==
    ret.op = "updated" =>
        /\ ret.post.paper = ret.pre.paper
        /\ ret.post.authorship = ret.pre.authorship
        /\ DOMAIN ret.post.author = DOMAIN ret.pre.author
        /\ \A x \in DOMAIN ret.pre.author :
               IF x = call.a.id
               THEN /\ SubSeq(ret.post.author[x], 1, 4)
                         = SubSeq(ret.pre.author[x], 1, 4)
                    /\ ret.exc = "" => ret.post.author[x][5] = call.a.followed
               ELSE ret.post.author[x] = ret.pre.author[x]
\* The flag of the author's row was changed, next to another author's row.
C21_Witness ==
    /\ ret.op = "updated"
    /\ call.prior = "both"
    /\ call.a.id \in DOMAIN ret.pre.author
    /\ call.a.id # OtherAuthor.id
    /\ ret.post.author[call.a.id][5] # ret.pre.author[call.a.id][5]

\* A stored paper pid is joined to author a by an authorship row.
Joined(d, a, pid) ==
    \E i \in DOMAIN d.authorship : d.authorship[i] = <<a, pid>>

IsPrefix(s, t) == Len(s) <= Len(t) /\ SubSeq(t, 1, Len(s)) = s

\* C23: the authorship table is append-only: in every step of sync, seed,
\* follow, unfollow and triage the committed rows stay and rows are at most
\* appended; and the iteration of a sync run on a known paper, the update
\* to a newer version included, leaves the authorship rows as they were,
\* whatever the fetched author list.
C23_AuthorshipAppendOnly ==
    [][/\ IsPrefix(disk.authorship, disk'.authorship)
       /\ (last'.kind = "paper" /\ last'.p.id \in DOMAIN last'.pre.paper) =>
              /\ db'.authorship = last'.pre.authorship
              /\ disk'.authorship = last'.pre.authorship]_vars
\* A known paper was updated to a version whose author list is another one
\* than the stored, and the paper has authorship rows.
C23_Witness ==
    /\ LastKnown
    /\ Effect(last.pre, db, last.p) = "upd"
    /\ last.p.authors # last.pre.paper[last.p.id].authors
    /\ \E i \in DOMAIN db.authorship : db.authorship[i][2] = last.p.id

\* The stored authors of d whose followed flag is 1.
Flagged(d) == {a \in DOMAIN d.author : d.author[a].followed = 1}

\* C24: in every store that follow, unfollow and sync come to,
\* get_followees returns exactly the stored authors with followed = 1: one
\* Author for each such row, with the row's id and names, and none for the
\* other rows; the followees a sync run iterates are those of the store it
\* started on.
C24_FolloweesAreFlagged ==
    LET got == AuthorDB_get_followees_rows(author_table(db)) IN
    /\ \A x \in got : x.exc = "" /\ x.followed = 1
    /\ {<<x.id, x.last_name, x.other_names, x.name_suffix>> : x \in got}
           = {SubSeq(AuthorRow(a, 1), 1, 4) : a \in Flagged(db)}
    /\ Cardinality(got) = Cardinality(Flagged(db))
    /\ AuthorDB_get_followees(db) = Flagged(db)
    /\ pc \in {"loop", "papers"} => run_set = Flagged(disk0)
\* A sync run iterates the one followee of a store that also holds an
\* author who was followed and unfollowed, and an author row for each id.
C24_Witness ==
    /\ pc = "loop"
    /\ run_set = {"a1"}
    /\ DOMAIN db.author = AuthorIds
    /\ db.author["a2"].followed = 0
    /\ \A i \in DOMAIN db.authorship : db.authorship[i][1] # "a2"

\* C25: a left key on a visible paper stores it hidden, a right key on a
\* hidden paper stores it visible, and no other paper row changes; a hidden
\* paper that a sync run fetches is visible afterwards exactly when the
\* fetched version is newer than the stored one (it stays hidden when the
\* version is the same or an older one).
C25_TriageVisibility ==
    [][/\ \A pid \in DOMAIN db.paper : \A key \in {"KEY_LEFT", "KEY_RIGHT"} :
              TriageKey(pid, key) =>
                  /\ DOMAIN disk'.paper = DOMAIN disk.paper
                  /\ \A q \in DOMAIN disk.paper \ {pid} :
                         disk'.paper[q] = disk.paper[q]
                  /\ (key = "KEY_LEFT" /\ disk.paper[pid].visible) =>
                         ~disk'.paper[pid].visible
                  /\ (key = "KEY_RIGHT" /\ ~disk.paper[pid].visible) =>
                         disk'.paper[pid].visible
       /\ (/\ last'.kind = "paper"
           /\ last'.p.id \in DOMAIN last'.pre.paper
           /\ ~last'.pre.paper[last'.p.id].visible) =>
              (disk'.paper[last'.p.id].visible <=>
                  last'.n > StoredVersion(last'.pre, last'.p.id))]_vars

\* The store d is the store d0 but for the row of author a, which is
\* stored with the flag f.
OnlyFlagOf(d, d0, a, f) ==
    /\ d.paper = d0.paper
    /\ d.authorship = d0.authorship
    /\ DOMAIN d.author = DOMAIN d0.author \cup {a}
    /\ d.author[a].followed = f
    /\ \A x \in DOMAIN d0.author \ {a} : d.author[x] = d0.author[x]

\* C26: a follow that found one author and ended without an exception
\* leaves that author stored with followed = 1 (the row inserted if it was
\* absent, its flag set if it was present) and nothing else changed; an
\* unfollow that found one followed author leaves the row in place with
\* followed = 0; a follow of a followed author, an unfollow of an author
\* that is not followed, and a follow or unfollow with no or several
\* matches leave the store as it was; and no step of any command takes an
\* author row out of the store.
C26_FollowUnfollow ==
    [][/\ DOMAIN disk.author \subseteq DOMAIN disk'.author
       /\ (pc' = "exited" /\ raised' = "") =>
              /\ last'.at = "follow_committed" =>
                     /\ OnlyFlagOf(disk', disk0', arg', 1)
                     /\ arg' \in DOMAIN disk0'.author =>
                            disk0'.author[arg'].followed = 0
              /\ last'.at = "follow" =>
                     /\ disk' = disk0'
                     /\ disk'.author[arg'].followed = 1
              /\ last'.at = "unfollow_committed" =>
                     /\ OnlyFlagOf(disk', disk0', arg', 0)
                     /\ disk0'.author[arg'].followed = 1
              /\ last'.at = "unfollow" =>
                     /\ disk' = disk0'
                     /\ disk'.author[arg'].followed = 0
              /\ last'.at \in {"follow_miss", "unfollow_miss"} =>
                     disk' = disk0']_vars
\* An unfollow of a followed author has ended: the row is there with
\* followed = 0, next to the row of an author who is still followed.
C26_Witness ==
    /\ pc = "exited"
    /\ raised = ""
    /\ last.at = "unfollow_committed"
    /\ disk0.author[arg].followed = 1
    /\ disk.author[arg].followed = 0
    /\ \E x \in DOMAIN disk.author \ {arg} : disk.author[x].followed = 1

\* C27: a sync run changes no author row that was stored before it: in
\* every step of update() the rows of the connection's view and of the
\* committed store stay as they are and a row that appears has followed =
\* 0, so that throughout the run every row of the store the run started on
\* is as it was and the followees are the ones the run iterates.
C27_SyncKeepsAuthors ==
    [][/\ pc \in {"loop", "papers"} =>
              /\ \A a \in DOMAIN db.author :
                     a \in DOMAIN db'.author /\ db'.author[a] = db.author[a]
              /\ \A a \in DOMAIN disk.author :
                     a \in DOMAIN disk'.author
                         /\ disk'.author[a] = disk.author[a]
              /\ \A a \in DOMAIN db'.author \ DOMAIN db.author :
                     db'.author[a].followed = 0
       /\ pc' \in {"loop", "papers"} =>
              /\ \A a \in DOMAIN disk0'.author :
                     a \in DOMAIN disk'.author
                         /\ disk'.author[a] = disk0'.author[a]
              /\ Flagged(disk') = Flagged(disk0')
              /\ Flagged(disk') = run_set']_vars
\* A sync run has inserted a paper that lists a followee stored before the
\* run and an author who was not stored: the new row has followed = 0.
C27_Witness ==
    /\ pc \in {"loop", "papers"}
    /\ LastPaper
    /\ Effect(last.pre, db, last.p) = "ins"
    /\ \E i \in DOMAIN last.p.authors :
           /\ last.p.authors[i] \in DOMAIN disk0.author
           /\ disk0.author[last.p.authors[i]].followed = 1
    /\ \E i \in DOMAIN last.p.authors :
           /\ last.p.authors[i] \notin DOMAIN last.pre.author
           /\ disk.author[last.p.authors[i]].followed = 0

\* Every authorship row of d names a stored author and a stored paper, and
\* every author row of d has a followed of 0 or 1.
Integrity(d) ==
    /\ \A i \in DOMAIN d.authorship :
           /\ d.authorship[i][1] \in DOMAIN d.author
           /\ d.authorship[i][2] \in DOMAIN d.paper
    /\ \A a \in DOMAIN d.author : d.author[a].followed \in {0, 1}

\* C28: in every reachable state of the store, committed or in the view of
\* the open connection, every authorship row references an author id and
\* a paper id that are present, and every author row has followed in
\* {0, 1}.
C28_ReferentialIntegrity == Integrity(disk) /\ Integrity(db)
\* The committed store holds two papers, both authors (one followed, one
\* not) and at least three authorship rows.
C28_Witness ==
    /\ DOMAIN disk.paper = {"A", "B"}
    /\ DOMAIN disk.author = AuthorIds
    /\ \E a \in AuthorIds : disk.author[a].followed = 1
    /\ \E a \in AuthorIds : disk.author[a].followed = 0
    /\ Len(disk.authorship) >= 3

\* The authorship rows of paper pid, in the order of the table.
EdgesOf(d, pid) == SelectSeq(d.authorship, LAMBDA e : e[2] = pid)
\* One authorship row for each entry of the author list, in its order.
EdgesFor(authors, pid) == [i \in DOMAIN authors |-> <<authors[i], pid>>]

\* C29: update() commits once per fetched paper: after every iteration the
\* committed store is the connection's view, a paper that appears in the
\* committed store appears with every author of its list stored and one
\* authorship row for each entry of the list, and every paper of every
\* committed state has the authorship rows of an author list the feed
\* gives it, all their authors stored; what an interrupted iteration wrote
\* is in no committed state.
C29_PerPaperCommit ==
    [][/\ last'.kind = "paper" => disk' = db'
       /\ \A pid \in DOMAIN disk'.paper \ DOMAIN disk.paper :
              /\ EdgesOf(disk', pid)
                     = EdgesFor(disk'.paper[pid].authors, pid)
              /\ \A i \in DOMAIN disk'.paper[pid].authors :
                     disk'.paper[pid].authors[i] \in DOMAIN disk'.author
       /\ \A pid \in DOMAIN disk'.paper :
              \E f \in env.feed :
                  /\ f[1] = pid
                  /\ EdgesOf(disk', pid)
                         = EdgesFor(FeedAuthors(pid, f[2]), pid)
                  /\ \A i \in DOMAIN FeedAuthors(pid, f[2]) :
                         FeedAuthors(pid, f[2])[i] \in DOMAIN disk'.author
      ]_vars
\* A run that had committed paper A was interrupted in the insertion of
\* paper B after the paper row and one of its two authorship rows: the view
\* holds them, the committed store does not.
C29_Witness ==
    /\ pc = "aborted"
    /\ "A" \in DOMAIN disk.paper
    /\ "A" \notin DOMAIN disk0.paper
    /\ "B" \in DOMAIN db.paper
    /\ "B" \notin DOMAIN disk.paper
    /\ Len(EdgesOf(db, "B")) = 1
    /\ EdgesOf(disk, "B") = <<>>

\* C30: on a list of papers that is not empty and for any keys, the cursor
\* of the triage controller starts at 0 and stays within 0..len(papers)-1:
\* KEY_DOWN moves it back by one and stops at 0, KEY_LEFT and KEY_RIGHT
\* move it on by one and stop at the last paper, another key leaves it; no
\* pass raises, and the loop ends on "q" and on no other key.
C30_CursorInBounds ==
    [][(call.op = "controller" /\ call.papers # <<>>) =>
          LET n == Len(call.papers) IN
          /\ ret'.op \in {"loop", "returned"}
          /\ ret'.cursor \in 0..(n - 1)
          /\ (ret.op = "none") => ret'.cursor = 0
          /\ (ret.op = "loop" /\ ret'.op = "loop") =>
                 /\ ret'.key = "KEY_DOWN" =>
                        ret'.cursor = IF ret.cursor = 0 THEN 0
                                      ELSE ret.cursor - 1
                 /\ ret'.key \in {"KEY_LEFT", "KEY_RIGHT"} =>
                        ret'.cursor = IF ret.cursor = n - 1 THEN n - 1
                                      ELSE ret.cursor + 1
                 /\ ret'.key \in {"KEY_UP", "q"} => ret'.cursor = ret.cursor
          /\ (ret.op = "loop" /\ ret'.op = "returned") => ret.key = "q"
          /\ (ret.op = "loop" /\ ret.key = "q") => ret'.op = "returned"
      ]_vars
\* On three papers the cursor was moved on to the last paper, held there
\* by another right key, and the session was ended by "q".
C30_Witness ==
    /\ ret.op = "returned"
    /\ Len(call.papers) = MaxTriaged
    /\ ret.cursor = MaxTriaged - 1
    /\ ret.pressed = MaxTriaged + 1

====
